---- MODULE Spec2Model ----
(***************************************************************************)
(* The RandomnessBeacon smart contract (contract.algo.ts, with its         *)
(* Managable and Pausable bases) and the ExampleCaller requester           *)
(* application, as a state machine.  Every application call is one atomic  *)
(* action: the AVM applies a call completely or, when an assert or an      *)
(* inner transaction fails, not at all.                                    *)
(***************************************************************************)
EXTENDS Integers, Sequences, FiniteSets, TLC

\* ------------------------------------------------------------- bounds
\* rounds run from 1 to MaxRound
MaxRound == 4
\* createRequest is offered while nextRequestId <= MaxRequestId
MaxRequestId == 3
\* createApplication draws each numeric parameter from 0..MaxConfig
MaxConfig == 2
\* number of rounds before the current one whose block seed is queryable
SeedLookback == 2

\* -------------------------------------------------- program constants
BOX_CREATE_COST == 2500
BOX_BYTE_COST == 400
\* Global.minTxnFee
MinTxnFee == 1000
\* bytes of the box key: the prefix 'requests' plus a uint64
KeySize == 16
\* bytes of one RandomnessRequest: five uint64 and one 32-byte address
RequestSize == 72
\* what the deployment pays into the application account
AppFunding == 100000
\* a requester's overpayment on top of getCosts()
Slack == 500

OK == "ok"
ERR_ONLY_MANAGER == "only manager can perform this action"
ERR_ZERO_ADDRESS == "manager cannot be zero address"
ERR_ONLY_PAUSER == "only pauser can call this method"
ERR_PAUSER_ZERO_ADDRESS == "pauser cannot be zero address"
ERR_PAUSED == "assert failed: paused"
ERR_PROOF_MUST_BE_VALID == "proof must be valid"
ERR_COSTS_PAYMENT_MUST_BE_VALID == "costs payment must be valid"
ERR_MUST_BE_FUTURE_ROUND == "must be a future round"
ERR_ROUND_EXCEEDS_MAX_FUTURE_ROUND == "error: round exceeds max future round"
ERR_MAX_PENDING_REQUESTS == "cannot exceed max pending requests"
ERR_MUST_BE_CALLED_FROM_APP == "must be called by an application"
ERR_NO_PENDING_REQUESTS == "no pending requests"
ERR_REQUEST_MUST_BE_STALE == "request must be stale to cancel"
ERR_TIMEOUT_CANNOT_BE_ZERO == "stale request timeout cannot be zero"
ERR_MAX_PENDING_REQUESTS_CANNOT_BE_ZERO == "max pending requests cannot be zero"
ERR_MAX_FUTURE_ROUNDS_CANNOT_BE_ZERO == "max future rounds cannot be zero"
ERR_BOX_NOT_FOUND == "box value does not exist"
ERR_BLOCK_NOT_AVAILABLE == "block seed not available"
ERR_CALLBACK_FAILED == "inner call to fulfillRandomness failed"
ERR_UNDERFLOW == "- would result negative"
ERR_OVERSPEND == "overspend"

NOTE_BOX_MBR_REFUND == "box mbr refund"
NOTE_FEES_PAYMENT == "fees payment for caller"
NOTE_CANCEL_PAYMENT == "cancellation fees for caller"
NOTE_CLOSE_OUT_REMAINDER == "close out remainder to manager"

\* ------------------------------------------------------------ accounts
ZeroAddress == "zero"
Creator == "creator"
BeaconAddress == "beacon"
\* accounts that sign transactions
Accounts == {Creator, "alice", "bob"}
\* the account the requests are made on behalf of
Requesters == {"alice"}
\* the application id of the ExampleCaller
ExampleCallerApp == 7

\* ----------------------------------------------------------------- VRF
\* the beacon's keypair and a foreign one
BeaconSecretKey == 1
ForeignSecretKey == 2
SecretKeys == {BeaconSecretKey, ForeignSecretKey}
PublicKeyOf(sk) == 10 + sk

\* op.Block.blkSeed: the seed of a round
blkSeed(r) == 100 + r

\* libvrf.prove: a proof binds the key that made it and the message
prove(sk, message) == [sk |-> sk, message |-> message]

\* op.vrfVerify: <<output, verified>>
vrfVerify(message, proof, pk) ==
  IF PublicKeyOf(proof.sk) = pk /\ proof.message = message
    THEN <<1000 * proof.sk + proof.message, TRUE>>
    ELSE <<0, FALSE>>

VARIABLES
  appStatus,             \* "none", "live" or "deleted"
  round,                 \* Global.round
  publicKey,
  nextRequestId,
  requests,              \* the box map: live request id -> RandomnessRequest
  maxFutureRounds,
  maxPendingRequests,
  staleRequestTimeout,
  totalPendingRequests,
  manager,               \* Managable._manager
  pauser,                \* Pausable._pauser
  paused,                \* Pausable.paused
  balance,               \* balance of the application account
  totalFulfilled,        \* ExampleCaller.totalFulfilled
  issued,                \* history: the ids that createRequest has returned
  last,                  \* the outcome of the last application call
  daemonPc,              \* where the daemon's main() stands
  signal,                \* abortController.signal: [aborted |-> BOOLEAN]
  daemonTimeout,         \* main's const staleRequestTimeout, read once
  boxMap,                \* the entries of the cycle's boxMap still to be visited
  lastRound,             \* the cycle's lastRound
  daemonLog,             \* what the daemon did to the request it visited last
  died                   \* the visit and the lastRound the process last died with

config == <<publicKey, maxFutureRounds, maxPendingRequests, staleRequestTimeout>>
roles == <<manager, pauser, paused>>
ledger == <<nextRequestId, requests, totalPendingRequests>>
caller == <<totalFulfilled>>
\* everything a failed call leaves alone
chain == <<appStatus, round, config, roles, ledger, balance, caller, issued>>
\* the state of the daemon process
daemon == <<daemonPc, signal, daemonTimeout, boxMap, lastRound, daemonLog, died>>
vars == <<chain, last, daemon>>

\* --------------------------------------------------------- call outcomes
\* what a call leaves behind: the method, "ok" or the failure, and for a
\* successful call its sender, the request id (passed or returned), its other
\* arguments, the inner payments, the callbacks and the events
Outcome(op, err, sender, requestId, args, itxns, callbacks, events) ==
  [op |-> op, err |-> err, sender |-> sender, requestId |-> requestId, args |-> args,
   itxns |-> itxns, callbacks |-> callbacks, events |-> events]

\* a rejected call: the transaction group is dropped, nothing is changed
Fail(op, err) ==
  /\ last' = Outcome(op, err, ZeroAddress, 0, <<>>, <<>>, <<>>, <<>>)
  /\ UNCHANGED chain

Payment(receiver, amount, note) ==
  [receiver |-> receiver, amount |-> amount, note |-> note]

SumAmounts(itxns) ==
  LET RECURSIVE Sum(_)
      Sum(i) == IF i = 0 THEN 0 ELSE itxns[i].amount + Sum(i - 1)
  IN Sum(Len(itxns))

\* ------------------------------------------------------------ Managable
\* mutant: the creator is checked instead of the stored manager
onlyManagerIsCreator(sender) == sender = Creator

onlyManager(sender) == manager = sender

\* ------------------------------------------------------------- Pausable
whenNotPaused == ~paused

onlyPauser(sender) == pauser = sender

\* --------------------------------------------------------------- beacon
getCostsFees == MinTxnFee * (8 + 2 + 1 + 1)

getCostsBoxMbr == BOX_CREATE_COST + BOX_BYTE_COST * (KeySize + RequestSize)

\* the readonly getCosts: it returns [txnFees, boxCost]
getCosts ==
  /\ appStatus = "live"
  /\ last' = Outcome("getCosts", OK, ZeroAddress, 0, <<getCostsFees, getCostsBoxMbr>>,
                     <<>>, <<>>, <<>>)
  /\ UNCHANGED chain

\* mutant: the counter is read but not incremented
getNextRequestIdStuck == nextRequestId

\* the value getNextRequestId leaves in nextRequestId; it returns the old one
getNextRequestId == nextRequestId + 1

\* mutant: the box is deleted but the counter is not decremented
deleteRequestKeepsCount(requestId) ==
  /\ totalPendingRequests' = totalPendingRequests
  /\ requests' = [i \in DOMAIN requests \ {requestId} |-> requests[i]]

\* mutant: the box of the oldest pending request is deleted
deleteRequestOldest(requestId) ==
  /\ totalPendingRequests' = totalPendingRequests - 1
  /\ requests' = [i \in DOMAIN requests \
                          {CHOOSE m \in DOMAIN requests : \A j \in DOMAIN requests : m <= j}
                    |-> requests[i]]

deleteRequest(requestId) ==
  /\ totalPendingRequests' = totalPendingRequests - 1
  /\ requests' = [i \in DOMAIN requests \ {requestId} |-> requests[i]]

\* the daemon has not visited a request yet
NoVisit == [requestId |-> 0, did |-> "none", err |-> OK]

Init ==
  /\ appStatus = "none"
  /\ round = 1
  /\ publicKey = 0
  /\ nextRequestId = 0
  /\ requests = <<>>
  /\ maxFutureRounds = 0
  /\ maxPendingRequests = 0
  /\ staleRequestTimeout = 0
  /\ totalPendingRequests = 0
  /\ manager = ZeroAddress
  /\ pauser = ZeroAddress
  /\ paused = FALSE
  /\ balance = 0
  /\ totalFulfilled = 0
  /\ issued = {}
  /\ last = Outcome("none", OK, ZeroAddress, 0, <<>>, <<>>, <<>>, <<>>)
  /\ daemonPc = "stopped"
  /\ signal = [aborted |-> FALSE]
  /\ daemonTimeout = 0
  /\ boxMap = <<>>
  /\ lastRound = 0
  /\ daemonLog = NoVisit
  /\ died = [visit |-> NoVisit, lastRound |-> 0]

\* mutant: the timeout is not validated
createApplicationErrTimeoutUnchecked(maxPending, maxFuture, timeout) ==
  IF ~(maxPending > 0) THEN ERR_MAX_PENDING_REQUESTS_CANNOT_BE_ZERO
  ELSE IF ~(maxFuture > 0) THEN ERR_MAX_FUTURE_ROUNDS_CANNOT_BE_ZERO
  ELSE OK

createApplicationErr(maxPending, maxFuture, timeout) ==
  IF ~(maxPending > 0) THEN ERR_MAX_PENDING_REQUESTS_CANNOT_BE_ZERO
  ELSE IF ~(maxFuture > 0) THEN ERR_MAX_FUTURE_ROUNDS_CANNOT_BE_ZERO
  ELSE IF ~(timeout > 0) THEN ERR_TIMEOUT_CANNOT_BE_ZERO
  ELSE OK

createApplication(sender, pk, maxPending, maxFuture, timeout) ==
  /\ appStatus = "none"
  /\ LET err == createApplicationErr(maxPending, maxFuture, timeout) IN
     IF err # OK THEN Fail("createApplication", err)
     ELSE
       /\ appStatus' = "live"
       /\ publicKey' = pk
       /\ maxPendingRequests' = maxPending
       /\ maxFutureRounds' = maxFuture
       /\ staleRequestTimeout' = timeout
       /\ nextRequestId' = 1
       /\ totalPendingRequests' = 0
       /\ manager' = sender
       /\ pauser' = sender
       /\ paused' = FALSE
       /\ balance' = AppFunding
       /\ last' = Outcome("createApplication", OK, sender, 0,
                          [publicKey |-> pk, maxPendingRequests |-> maxPending,
                           maxFutureRounds |-> maxFuture, staleRequestTimeout |-> timeout],
                          <<>>, <<>>, <<>>)
       /\ UNCHANGED <<round, requests, caller, issued>>

\* mutant: an update of the application clears the timeout
updateApplicationResetsTimeout(sender) ==
  /\ appStatus = "live"
  /\ IF ~onlyManager(sender) THEN Fail("updateApplication", ERR_ONLY_MANAGER)
     ELSE
       /\ staleRequestTimeout' = 0
       /\ last' = Outcome("updateApplication", OK, sender, 0, <<>>, <<>>, <<>>, <<>>)
       /\ UNCHANGED <<appStatus, round, publicKey, maxFutureRounds, maxPendingRequests,
                      roles, ledger, balance, caller, issued>>

updateApplication(sender) ==
  /\ appStatus = "live"
  /\ IF ~onlyManager(sender) THEN Fail("updateApplication", ERR_ONLY_MANAGER)
     ELSE
       /\ last' = Outcome("updateApplication", OK, sender, 0, <<>>, <<>>, <<>>, <<>>)
       /\ UNCHANGED chain

\* mutant: pending requests do not stop the deletion
deleteApplicationErrIgnoresPending(sender) ==
  IF ~onlyManager(sender) THEN ERR_ONLY_MANAGER
  ELSE OK

deleteApplicationErr(sender) ==
  IF ~onlyManager(sender) THEN ERR_ONLY_MANAGER
  ELSE IF ~(totalPendingRequests = 0) THEN ERR_NO_PENDING_REQUESTS
  ELSE OK

deleteApplication(sender) ==
  /\ appStatus = "live"
  /\ LET err == deleteApplicationErr(sender) IN
     IF err # OK THEN Fail("deleteApplication", err)
     ELSE
       /\ appStatus' = "deleted"
       /\ balance' = 0
       /\ last' = Outcome("deleteApplication", OK, sender, 0, <<>>,
                          <<Payment(manager, balance, NOTE_CLOSE_OUT_REMAINDER)>>, <<>>, <<>>)
       /\ UNCHANGED <<round, config, roles, ledger, caller, issued>>

\* mutant: a renounced manager role can be taken by any caller
updateManagerErrClaimable(sender, newManager) ==
  IF ~(onlyManager(sender) \/ manager = ZeroAddress) THEN ERR_ONLY_MANAGER
  ELSE IF ~(newManager # ZeroAddress) THEN ERR_ZERO_ADDRESS
  ELSE OK

\* ------------------------------------------------- Managable, Pausable
updateManagerErr(sender, newManager) ==
  IF ~onlyManager(sender) THEN ERR_ONLY_MANAGER
  ELSE IF ~(newManager # ZeroAddress) THEN ERR_ZERO_ADDRESS
  ELSE OK

updateManager(sender, newManager) ==
  /\ appStatus = "live"
  /\ LET err == updateManagerErr(sender, newManager) IN
     IF err # OK THEN Fail("updateManager", err)
     ELSE
       /\ manager' = newManager
       /\ last' = Outcome("updateManager", OK, sender, 0, <<>>, <<>>, <<>>, <<>>)
       /\ UNCHANGED <<appStatus, round, config, pauser, paused, ledger, balance, caller, issued>>

deleteManager(sender) ==
  /\ appStatus = "live"
  /\ IF ~onlyManager(sender) THEN Fail("deleteManager", ERR_ONLY_MANAGER)
     ELSE
       /\ manager' = ZeroAddress
       /\ last' = Outcome("deleteManager", OK, sender, 0, <<>>, <<>>, <<>>, <<>>)
       /\ UNCHANGED <<appStatus, round, config, pauser, paused, ledger, balance, caller, issued>>

pause(sender) ==
  /\ appStatus = "live"
  /\ IF ~onlyPauser(sender) THEN Fail("pause", ERR_ONLY_PAUSER)
     ELSE
       /\ paused' = TRUE
       /\ last' = Outcome("pause", OK, sender, 0, <<>>, <<>>, <<>>, <<>>)
       /\ UNCHANGED <<appStatus, round, config, manager, pauser, ledger, balance, caller, issued>>

unpause(sender) ==
  /\ appStatus = "live"
  /\ IF ~onlyPauser(sender) THEN Fail("unpause", ERR_ONLY_PAUSER)
     ELSE
       /\ paused' = FALSE
       /\ last' = Outcome("unpause", OK, sender, 0, <<>>, <<>>, <<>>, <<>>)
       /\ UNCHANGED <<appStatus, round, config, manager, pauser, ledger, balance, caller, issued>>

updatePauserErr(sender, newPauser) ==
  IF ~onlyPauser(sender) THEN ERR_ONLY_PAUSER
  ELSE IF ~(newPauser # ZeroAddress) THEN ERR_PAUSER_ZERO_ADDRESS
  ELSE OK

updatePauser(sender, newPauser) ==
  /\ appStatus = "live"
  /\ LET err == updatePauserErr(sender, newPauser) IN
     IF err # OK THEN Fail("updatePauser", err)
     ELSE
       /\ pauser' = newPauser
       /\ last' = Outcome("updatePauser", OK, sender, 0, <<>>, <<>>, <<>>, <<>>)
       /\ UNCHANGED <<appStatus, round, config, manager, paused, ledger, balance, caller, issued>>

\* mutant: the amount has to exceed the costs
costsPaymentValidStrict(payReceiver, payAmount) ==
  /\ payReceiver = BeaconAddress
  /\ payAmount > getCostsFees + getCostsBoxMbr

\* mutant: a payment that covers the box is accepted
costsPaymentValidBoxOnly(payReceiver, payAmount) ==
  /\ payReceiver = BeaconAddress
  /\ payAmount >= getCostsBoxMbr

\* -------------------------------------------------------- createRequest
\* the assertMatch on costsPayment
costsPaymentValid(payReceiver, payAmount) ==
  /\ payReceiver = BeaconAddress
  /\ payAmount >= getCostsFees + getCostsBoxMbr

\* mutant: the capacity check admits one request too many
hasCapacityOffByOne == totalPendingRequests <= maxPendingRequests

\* mutant: the capacity is not checked
hasCapacityUnchecked == TRUE

\* mutant: the capacity counts every request ever created
hasCapacityCountsIssued == nextRequestId - 1 < maxPendingRequests

\* the capacity assert of createRequest
hasCapacity == totalPendingRequests < maxPendingRequests

\* mutant: the current round is accepted as a target round
createRequestErrAcceptsCurrentRound(requesterAddress, rnd, callerAppId, payReceiver, payAmount) ==
  IF ~whenNotPaused THEN ERR_PAUSED
  ELSE IF ~hasCapacity THEN ERR_MAX_PENDING_REQUESTS
  ELSE IF ~(rnd >= round) THEN ERR_MUST_BE_FUTURE_ROUND
  ELSE IF ~(rnd <= round + maxFutureRounds) THEN ERR_ROUND_EXCEEDS_MAX_FUTURE_ROUND
  ELSE IF ~(callerAppId # 0) THEN ERR_MUST_BE_CALLED_FROM_APP
  ELSE IF ~costsPaymentValid(payReceiver, payAmount) THEN ERR_COSTS_PAYMENT_MUST_BE_VALID
  ELSE OK

\* mutant: a call that comes from no application is accepted
createRequestErrNoCallerCheck(requesterAddress, rnd, callerAppId, payReceiver, payAmount) ==
  IF ~whenNotPaused THEN ERR_PAUSED
  ELSE IF ~hasCapacity THEN ERR_MAX_PENDING_REQUESTS
  ELSE IF ~(rnd > round) THEN ERR_MUST_BE_FUTURE_ROUND
  ELSE IF ~(rnd <= round + maxFutureRounds) THEN ERR_ROUND_EXCEEDS_MAX_FUTURE_ROUND
  ELSE IF ~costsPaymentValid(payReceiver, payAmount) THEN ERR_COSTS_PAYMENT_MUST_BE_VALID
  ELSE OK

\* mutant: the window of future rounds is not enforced
createRequestErrNoMaxFuture(requesterAddress, rnd, callerAppId, payReceiver, payAmount) ==
  IF ~whenNotPaused THEN ERR_PAUSED
  ELSE IF ~hasCapacity THEN ERR_MAX_PENDING_REQUESTS
  ELSE IF ~(rnd > round) THEN ERR_MUST_BE_FUTURE_ROUND
  ELSE IF ~(callerAppId # 0) THEN ERR_MUST_BE_CALLED_FROM_APP
  ELSE IF ~costsPaymentValid(payReceiver, payAmount) THEN ERR_COSTS_PAYMENT_MUST_BE_VALID
  ELSE OK

\* mutant: the round is checked before the capacity
createRequestErrRoundFirst(requesterAddress, rnd, callerAppId, payReceiver, payAmount) ==
  IF ~whenNotPaused THEN ERR_PAUSED
  ELSE IF ~(rnd > round) THEN ERR_MUST_BE_FUTURE_ROUND
  ELSE IF ~(rnd <= round + maxFutureRounds) THEN ERR_ROUND_EXCEEDS_MAX_FUTURE_ROUND
  ELSE IF ~hasCapacity THEN ERR_MAX_PENDING_REQUESTS
  ELSE IF ~(callerAppId # 0) THEN ERR_MUST_BE_CALLED_FROM_APP
  ELSE IF ~costsPaymentValid(payReceiver, payAmount) THEN ERR_COSTS_PAYMENT_MUST_BE_VALID
  ELSE OK

createRequestErr(requesterAddress, rnd, callerAppId, payReceiver, payAmount) ==
  IF ~whenNotPaused THEN ERR_PAUSED
  ELSE IF ~hasCapacity THEN ERR_MAX_PENDING_REQUESTS
  ELSE IF ~(rnd > round) THEN ERR_MUST_BE_FUTURE_ROUND
  ELSE IF ~(rnd <= round + maxFutureRounds) THEN ERR_ROUND_EXCEEDS_MAX_FUTURE_ROUND
  ELSE IF ~(callerAppId # 0) THEN ERR_MUST_BE_CALLED_FROM_APP
  ELSE IF ~costsPaymentValid(payReceiver, payAmount) THEN ERR_COSTS_PAYMENT_MUST_BE_VALID
  ELSE OK

\* mutant: what is paid above the costs is not credited to the request
newRequestDropsSurplus(requesterAddress, rnd, callerAppId, payAmount) ==
  [createdAt |-> round,
   requesterAppId |-> callerAppId,
   requesterAddress |-> requesterAddress,
   round |-> rnd,
   feePaid |-> getCostsFees,
   boxCost |-> getCostsBoxMbr]

\* mutant: the target round is stored as the round of creation
newRequestCreatedAtTarget(requesterAddress, rnd, callerAppId, payAmount) ==
  [createdAt |-> rnd,
   requesterAppId |-> callerAppId,
   requesterAddress |-> requesterAddress,
   round |-> rnd,
   feePaid |-> payAmount - getCostsBoxMbr,
   boxCost |-> getCostsBoxMbr]

\* the RandomnessRequest that createRequest stores
newRequest(requesterAddress, rnd, callerAppId, payAmount) ==
  [createdAt |-> round,
   requesterAppId |-> callerAppId,
   requesterAddress |-> requesterAddress,
   round |-> rnd,
   feePaid |-> payAmount - getCostsBoxMbr,
   boxCost |-> getCostsBoxMbr]

RequestCreated(requestId, request) ==
  [name |-> "RequestCreated", requestId |-> requestId,
   requesterAppId |-> request.requesterAppId,
   requesterAddress |-> request.requesterAddress, round |-> request.round]

createRequest(requesterAddress, rnd, callerAppId, payReceiver, payAmount) ==
  /\ appStatus = "live"
  /\ nextRequestId <= MaxRequestId
  /\ LET err == createRequestErr(requesterAddress, rnd, callerAppId, payReceiver, payAmount)
         request == newRequest(requesterAddress, rnd, callerAppId, payAmount)
         requestId == nextRequestId
     IN
     IF err # OK THEN Fail("createRequest", err)
     ELSE
       /\ nextRequestId' = getNextRequestId
       /\ requests' = [i \in DOMAIN requests \cup {requestId} |->
                         IF i = requestId THEN request ELSE requests[i]]
       /\ totalPendingRequests' = totalPendingRequests + 1
       /\ balance' = balance + payAmount
       /\ issued' = issued \cup {requestId}
       /\ last' = Outcome("createRequest", OK, ZeroAddress, requestId,
                          [requesterAddress |-> requesterAddress, round |-> rnd,
                           callerAppId |-> callerAppId,
                           costsPayment |-> [receiver |-> payReceiver, amount |-> payAmount]],
                          <<>>, <<>>, <<RequestCreated(requestId, request)>>)
       /\ UNCHANGED <<appStatus, round, config, roles, caller>>

\* -------------------------------------------------------- cancelRequest
\* mutant: the timeout is counted from the round of creation
isStaleFromCreation(request) == round >= request.createdAt + staleRequestTimeout

\* mutant: the request counts as stale one round early
isStaleOffByOne(request) == round + 1 >= request.round + staleRequestTimeout

\* mutant: the request is stale in the one round in which the timeout ends
isStaleExactRound(request) == round = request.round + staleRequestTimeout

isStale(request) == round >= request.round + staleRequestTimeout

cancellationFees == MinTxnFee * 3

\* mutant: the incentive is deducted whoever the caller is
cancelPaymentsAlwaysDeducts(sender, request) ==
  <<Payment(sender, cancellationFees, NOTE_CANCEL_PAYMENT),
    Payment(request.requesterAddress,
            request.boxCost + request.feePaid - cancellationFees, NOTE_BOX_MBR_REFUND)>>

\* mutant: the incentive is withheld from the refund but paid to nobody
cancelPaymentsKeepsIncentive(sender, request) ==
  LET amountToRefund == request.boxCost + request.feePaid IN
  IF request.requesterAddress # sender
    THEN <<Payment(request.requesterAddress, amountToRefund - cancellationFees,
                   NOTE_BOX_MBR_REFUND)>>
    ELSE <<Payment(request.requesterAddress, amountToRefund, NOTE_BOX_MBR_REFUND)>>

\* the inner payments of cancelRequest, in the order they are submitted
cancelPayments(sender, request) ==
  LET amountToRefund == request.boxCost + request.feePaid IN
  IF request.requesterAddress # sender
    THEN <<Payment(sender, cancellationFees, NOTE_CANCEL_PAYMENT),
           Payment(request.requesterAddress, amountToRefund - cancellationFees,
                   NOTE_BOX_MBR_REFUND)>>
    ELSE <<Payment(request.requesterAddress, amountToRefund, NOTE_BOX_MBR_REFUND)>>

RequestCancelled(requestId, request) ==
  [name |-> "RequestCancelled", requestId |-> requestId,
   requesterAppId |-> request.requesterAppId,
   requesterAddress |-> request.requesterAddress]

\* a payment of a negative amount is the uint64 subtraction that failed
itxnsErr(itxns) ==
  IF \E i \in 1..Len(itxns) : itxns[i].amount < 0 THEN ERR_UNDERFLOW
  ELSE IF SumAmounts(itxns) > balance THEN ERR_OVERSPEND
  ELSE IF ~(totalPendingRequests >= 1) THEN ERR_UNDERFLOW
  ELSE OK

\* mutant: an absent box reads as a record of zeroes instead of failing
cancelRequestErrAbsentReadsZero(sender, requestId) ==
  IF requestId \notin DOMAIN requests
    THEN (IF ~(round >= staleRequestTimeout) THEN ERR_REQUEST_MUST_BE_STALE ELSE OK)
  ELSE IF ~isStale(requests[requestId]) THEN ERR_REQUEST_MUST_BE_STALE
  ELSE itxnsErr(cancelPayments(sender, requests[requestId]))

cancelRequestErr(sender, requestId) ==
  IF requestId \notin DOMAIN requests THEN ERR_BOX_NOT_FOUND
  ELSE IF ~isStale(requests[requestId]) THEN ERR_REQUEST_MUST_BE_STALE
  ELSE itxnsErr(cancelPayments(sender, requests[requestId]))

cancelRequest(sender, requestId) ==
  /\ appStatus = "live"
  /\ LET err == cancelRequestErr(sender, requestId) IN
     IF err # OK THEN Fail("cancelRequest", err)
     ELSE
       LET request == requests[requestId]
           itxns == cancelPayments(sender, request)
       IN
       /\ balance' = balance - SumAmounts(itxns)
       /\ deleteRequest(requestId)
       /\ nextRequestId' = nextRequestId
       /\ last' = Outcome("cancelRequest", OK, sender, requestId, <<>>, itxns, <<>>,
                          <<RequestCancelled(requestId, request)>>)
       /\ UNCHANGED <<appStatus, round, config, roles, caller, issued>>

\* ------------------------------------------------------ completeRequest
\* op.Block.blkSeed is defined for the rounds before the current one that
\* the node still holds
blkSeedAvailable(r) == r < round /\ round - r <= SeedLookback

\* mutant: the two amounts are swapped
completePaymentsSwapped(sender, request) ==
  <<Payment(sender, request.boxCost, NOTE_FEES_PAYMENT),
    Payment(request.requesterAddress, request.feePaid, NOTE_BOX_MBR_REFUND)>>

\* the inner payments of completeRequest, in the order they are submitted
completePayments(sender, request) ==
  <<Payment(sender, request.feePaid, NOTE_FEES_PAYMENT),
    Payment(request.requesterAddress, request.boxCost, NOTE_BOX_MBR_REFUND)>>

\* the arguments of the fulfillRandomness call
callbackCall(requestId, request, out) ==
  [appId |-> request.requesterAppId, requestId |-> requestId,
   requesterAddress |-> request.requesterAddress, output |-> out]

RequestFulfilled(requestId, request) ==
  [name |-> "RequestFulfilled", requestId |-> requestId,
   requesterAppId |-> request.requesterAppId,
   requesterAddress |-> request.requesterAddress]

\* mutant: the result of vrfVerify is not asserted
completeRequestErrNoVerify(sender, requestId, proof, callbackOk) ==
  IF ~onlyManager(sender) THEN ERR_ONLY_MANAGER
  ELSE IF requestId \notin DOMAIN requests THEN ERR_BOX_NOT_FOUND
  ELSE IF ~blkSeedAvailable(requests[requestId].round) THEN ERR_BLOCK_NOT_AVAILABLE
  ELSE IF ~callbackOk THEN ERR_CALLBACK_FAILED
  ELSE itxnsErr(completePayments(sender, requests[requestId]))

\* mutant: a failure of the callback does not fail the call
completeRequestErrIgnoresCallback(sender, requestId, proof, callbackOk) ==
  IF ~onlyManager(sender) THEN ERR_ONLY_MANAGER
  ELSE IF requestId \notin DOMAIN requests THEN ERR_BOX_NOT_FOUND
  ELSE IF ~blkSeedAvailable(requests[requestId].round) THEN ERR_BLOCK_NOT_AVAILABLE
  ELSE IF ~vrfVerify(blkSeed(requests[requestId].round), proof, publicKey)[2]
    THEN ERR_PROOF_MUST_BE_VALID
  ELSE itxnsErr(completePayments(sender, requests[requestId]))

\* mutant: the seed is read for the round the request was created in
completeRequestErrSeedOfCreation(sender, requestId, proof, callbackOk) ==
  IF ~onlyManager(sender) THEN ERR_ONLY_MANAGER
  ELSE IF requestId \notin DOMAIN requests THEN ERR_BOX_NOT_FOUND
  ELSE IF ~blkSeedAvailable(requests[requestId].createdAt) THEN ERR_BLOCK_NOT_AVAILABLE
  ELSE IF ~vrfVerify(blkSeed(requests[requestId].createdAt), proof, publicKey)[2]
    THEN ERR_PROOF_MUST_BE_VALID
  ELSE IF ~callbackOk THEN ERR_CALLBACK_FAILED
  ELSE itxnsErr(completePayments(sender, requests[requestId]))

\* mutant: the seed of a round the node no longer holds is read all the same
completeRequestErrStaleSeedRead(sender, requestId, proof, callbackOk) ==
  IF ~onlyManager(sender) THEN ERR_ONLY_MANAGER
  ELSE IF requestId \notin DOMAIN requests THEN ERR_BOX_NOT_FOUND
  ELSE IF ~(requests[requestId].round < round) THEN ERR_BLOCK_NOT_AVAILABLE
  ELSE IF ~vrfVerify(blkSeed(requests[requestId].round), proof, publicKey)[2]
    THEN ERR_PROOF_MUST_BE_VALID
  ELSE IF ~callbackOk THEN ERR_CALLBACK_FAILED
  ELSE itxnsErr(completePayments(sender, requests[requestId]))

\* mutant: completeRequest carries the whenNotPaused check of createRequest
completeRequestErrWhenNotPaused(sender, requestId, proof, callbackOk) ==
  IF ~whenNotPaused THEN ERR_PAUSED
  ELSE IF ~onlyManager(sender) THEN ERR_ONLY_MANAGER
  ELSE IF requestId \notin DOMAIN requests THEN ERR_BOX_NOT_FOUND
  ELSE IF ~blkSeedAvailable(requests[requestId].round) THEN ERR_BLOCK_NOT_AVAILABLE
  ELSE IF ~vrfVerify(blkSeed(requests[requestId].round), proof, publicKey)[2]
    THEN ERR_PROOF_MUST_BE_VALID
  ELSE IF ~callbackOk THEN ERR_CALLBACK_FAILED
  ELSE itxnsErr(completePayments(sender, requests[requestId]))

\* callbackOk: whether the inner call to the requester application succeeds
completeRequestErr(sender, requestId, proof, callbackOk) ==
  IF ~onlyManager(sender) THEN ERR_ONLY_MANAGER
  ELSE IF requestId \notin DOMAIN requests THEN ERR_BOX_NOT_FOUND
  ELSE IF ~blkSeedAvailable(requests[requestId].round) THEN ERR_BLOCK_NOT_AVAILABLE
  ELSE IF ~vrfVerify(blkSeed(requests[requestId].round), proof, publicKey)[2]
    THEN ERR_PROOF_MUST_BE_VALID
  ELSE IF ~callbackOk THEN ERR_CALLBACK_FAILED
  ELSE itxnsErr(completePayments(sender, requests[requestId]))

\* mutant: the callback does not count the fulfilment
fulfillRandomnessNoCount == totalFulfilled' = totalFulfilled

\* ExampleCaller.fulfillRandomness, the callback of the requester application
fulfillRandomness == totalFulfilled' = totalFulfilled + 1

completeRequest(sender, requestId, proof, callbackOk) ==
  /\ appStatus = "live"
  /\ LET err == completeRequestErr(sender, requestId, proof, callbackOk) IN
     IF err # OK THEN Fail("completeRequest", err)
     ELSE
       LET request == requests[requestId]
           out == vrfVerify(blkSeed(request.round), proof, publicKey)[1]
           itxns == completePayments(sender, request)
       IN
       /\ fulfillRandomness
       /\ balance' = balance - SumAmounts(itxns)
       /\ deleteRequest(requestId)
       /\ nextRequestId' = nextRequestId
       /\ last' = Outcome("completeRequest", OK, sender, requestId,
                          [proof |-> proof, callbackOk |-> callbackOk], itxns,
                          <<callbackCall(requestId, request, out)>>,
                          <<RequestFulfilled(requestId, request)>>)
       /\ UNCHANGED <<appStatus, round, config, roles, issued>>

\* ---------------------------------------------------------- environment
\* what the callers of the model draw their arguments from
RoundArgs == round..(round + maxFutureRounds + 1)
AppIdArgs == {0, ExampleCallerApp}
ExactCosts == getCostsFees + getCostsBoxMbr
PaymentArgs == {[receiver |-> BeaconAddress, amount |-> ExactCosts - 1],
                [receiver |-> BeaconAddress, amount |-> ExactCosts],
                [receiver |-> BeaconAddress, amount |-> ExactCosts + Slack],
                [receiver |-> Creator, amount |-> ExactCosts]}
ConfigArgs == 0..MaxConfig
AdminConfigArgs == {0, 1}
RequestIdArgs == 1..MaxRequestId
\* proofs over the seeds that are queryable in the current round
ProofArgs == {prove(sk, blkSeed(r)) : sk \in SecretKeys, r \in (round - SeedLookback)..(round - 1)}
NewRoleArgs == {"bob", ZeroAddress}

AdvanceRound ==
  /\ round < MaxRound
  /\ round' = round + 1
  /\ UNCHANGED <<appStatus, config, roles, ledger, balance, caller, issued, last>>

\* the request lifecycle, under every configuration of the deployment
Next ==
  \/ \E maxPending \in ConfigArgs, maxFuture \in ConfigArgs, timeout \in ConfigArgs :
       createApplication(Creator, PublicKeyOf(BeaconSecretKey), maxPending, maxFuture, timeout) /\ UNCHANGED daemon
  \/ \E sender \in Accounts : updateApplication(sender) /\ UNCHANGED daemon
  \/ \E sender \in Accounts : deleteApplication(sender) /\ UNCHANGED daemon
  \/ \E requesterAddress \in Requesters, rnd \in RoundArgs, callerAppId \in AppIdArgs,
        costsPayment \in PaymentArgs :
       createRequest(requesterAddress, rnd, callerAppId, costsPayment.receiver,
                     costsPayment.amount) /\ UNCHANGED daemon
  \/ \E sender \in Accounts, requestId \in RequestIdArgs : cancelRequest(sender, requestId) /\ UNCHANGED daemon
  \/ \E sender \in Accounts, requestId \in RequestIdArgs, proof \in ProofArgs,
        callbackOk \in BOOLEAN :
       completeRequest(sender, requestId, proof, callbackOk) /\ UNCHANGED daemon
  \/ AdvanceRound /\ UNCHANGED daemon

Spec == Init /\ [][Next]_vars

\* every operation of the contract, the manager and pauser operations
\* included, under the smallest configuration
NextAdmin ==
  \/ \E maxPending \in AdminConfigArgs, maxFuture \in AdminConfigArgs,
        timeout \in AdminConfigArgs :
       createApplication(Creator, PublicKeyOf(BeaconSecretKey), maxPending, maxFuture, timeout) /\ UNCHANGED daemon
  \/ \E sender \in Accounts : updateApplication(sender) /\ UNCHANGED daemon
  \/ \E sender \in Accounts : deleteApplication(sender) /\ UNCHANGED daemon
  \/ \E sender \in Accounts, newManager \in NewRoleArgs : updateManager(sender, newManager) /\ UNCHANGED daemon
  \/ \E sender \in Accounts : deleteManager(sender) /\ UNCHANGED daemon
  \/ \E sender \in Accounts : pause(sender) /\ UNCHANGED daemon
  \/ \E sender \in Accounts : unpause(sender) /\ UNCHANGED daemon
  \/ \E sender \in Accounts, newPauser \in NewRoleArgs : updatePauser(sender, newPauser) /\ UNCHANGED daemon
  \/ getCosts /\ UNCHANGED daemon
  \/ \E requesterAddress \in Requesters, rnd \in RoundArgs, callerAppId \in AppIdArgs,
        costsPayment \in PaymentArgs :
       createRequest(requesterAddress, rnd, callerAppId, costsPayment.receiver,
                     costsPayment.amount) /\ UNCHANGED daemon
  \/ \E sender \in Accounts, requestId \in RequestIdArgs : cancelRequest(sender, requestId) /\ UNCHANGED daemon
  \/ \E sender \in Accounts, requestId \in RequestIdArgs, proof \in ProofArgs,
        callbackOk \in BOOLEAN :
       completeRequest(sender, requestId, proof, callbackOk) /\ UNCHANGED daemon
  \/ AdvanceRound /\ UNCHANGED daemon

SpecAdmin == Init /\ [][NextAdmin]_vars

\* --------------------------------------------------------------- daemon
\* config.managerAccount and config.vrfSecretKey of the deployment
managerAccount == Creator
vrfSecretKey == BeaconSecretKey

\* a submission that did not reach the contract: the node is unreachable,
\* the block cannot be fetched or libvrf.prove fails
ERR_NOT_SENT == "error: not sent"

\* mutant: the daemon takes the round after the next one as the last round
getLastRoundAhead == round + 1

\* algod's last round: a transaction submitted now is evaluated in the
\* round after it
getLastRound == round - 1

createProofForRound(sk, r) == prove(sk, blkSeed(r))

\* requests.getMap(): the pending requests, read in the order of their ids
getMap ==
  LET RECURSIVE Entries(_)
      Entries(ids) ==
        IF ids = {} THEN <<>>
        ELSE LET i == CHOOSE x \in ids : \A y \in ids : x <= y
             IN <<[requestId |-> i, request |-> requests[i]]>> \o Entries(ids \ {i})
  IN Entries(DOMAIN requests)

\* what the daemon did to the request it visited
Visit(requestId, did, err) == [requestId |-> requestId, did |-> did, err |-> err]

\* the process is started: main(abortController.signal)
daemonLaunch ==
  /\ daemonPc = "stopped"
  /\ daemonPc' = "start"
  /\ UNCHANGED <<chain, last, signal, daemonTimeout, boxMap, lastRound, daemonLog, died>>

\* SIGINT or SIGTERM: abortController.abort()
abort ==
  /\ daemonPc \notin {"stopped", "done", "fatal"}
  /\ ~signal.aborted
  /\ signal' = [aborted |-> TRUE]
  /\ UNCHANGED <<chain, last, daemonPc, daemonTimeout, boxMap, lastRound, daemonLog, died>>

\* main, up to the loop: staleRequestTimeout is read once; an undefined
\* value is thrown and caught by main(...).catch, which exits with code 1
daemonStart ==
  /\ daemonPc = "start"
  /\ IF appStatus # "live"
       THEN daemonPc' = "fatal" /\ UNCHANGED daemonTimeout
       ELSE daemonPc' = "loop" /\ daemonTimeout' = staleRequestTimeout
  /\ UNCHANGED <<chain, last, signal, boxMap, lastRound, daemonLog, died>>

\* while (!signal.aborted): main returns when the signal is aborted
daemonLoop ==
  /\ daemonPc = "loop"
  /\ daemonPc' = IF signal.aborted THEN "done" ELSE "sleep"
  /\ UNCHANGED <<chain, last, signal, daemonTimeout, boxMap, lastRound, daemonLog, died>>

\* await sleep(pollInterval, signal): the abort listener rejects with
\* ErrSleepAborted and the loop is left, or the timer resolves
daemonSleep ==
  /\ daemonPc = "sleep"
  /\ daemonPc' = IF signal.aborted THEN "done" ELSE "poll"
  /\ UNCHANGED <<chain, last, signal, daemonTimeout, boxMap, lastRound, daemonLog, died>>

\* the reads of a cycle: totalPendingRequests, the box map and lastRound
daemonPoll ==
  /\ daemonPc = "poll"
  /\ IF appStatus # "live"
       THEN daemonPc' = "fatal" /\ UNCHANGED <<boxMap, lastRound>>
     ELSE IF totalPendingRequests = 0
       THEN daemonPc' = "loop" /\ UNCHANGED <<boxMap, lastRound>>
     ELSE /\ boxMap' = getMap
          /\ lastRound' = getLastRound
          /\ daemonPc' = "visit"
  /\ UNCHANGED <<chain, last, signal, daemonTimeout, daemonLog, died>>

\* the statement after the body of the for loop: the next entry, or the
\* head of the while loop
nextEntry ==
  /\ boxMap' = Tail(boxMap)
  /\ daemonPc' = IF Tail(boxMap) = <<>> THEN "loop" ELSE "visit"

\* an await that throws leaves main: nothing more of the boxMap is visited
\* and main(...).catch exits with code 1
thrown ==
  /\ boxMap' = boxMap
  /\ daemonPc' = "fatal"

\* mutant: a request is visited as ready in the round it is due in
notReadyYetStrict(roundsSinceReady) == roundsSinceReady < 0

\* mutant: a request that was skipped once is remembered as not ready
notReadyYetOnceSkipped(roundsSinceReady) ==
  roundsSinceReady <= 0 \/ daemonLog.did = "skip"

\* "not ready yet, skip"
notReadyYet(roundsSinceReady) == roundsSinceReady <= 0

\* "has timed out, cancel it"
hasTimedOut(roundsSinceReady) == roundsSinceReady >= daemonTimeout

\* one iteration of for (const [requestId, request] of boxMap)
\* sent: whether the submission reaches the contract
daemonVisit ==
  /\ daemonPc = "visit"
  /\ boxMap # <<>>
  /\ LET requestId == Head(boxMap).requestId
         request == Head(boxMap).request
         roundsSinceReady == lastRound - request.round
     IN
     IF notReadyYet(roundsSinceReady) THEN
       /\ daemonLog' = Visit(requestId, "skip", OK)
       /\ nextEntry
       /\ UNCHANGED <<chain, last>>
     ELSE IF hasTimedOut(roundsSinceReady) THEN
       \E sent \in BOOLEAN :
         IF ~sent THEN
           /\ daemonLog' = Visit(requestId, "cancelRequest", ERR_NOT_SENT)
           /\ thrown
           /\ UNCHANGED <<chain, last>>
         ELSE
           /\ cancelRequest(managerAccount, requestId)
           /\ daemonLog' = Visit(requestId, "cancelRequest",
                                 cancelRequestErr(managerAccount, requestId))
           /\ IF cancelRequestErr(managerAccount, requestId) # OK THEN thrown ELSE nextEntry
     ELSE
       \E sent \in BOOLEAN, callbackOk \in BOOLEAN :
         LET proof == createProofForRound(vrfSecretKey, request.round) IN
         IF ~sent THEN
           /\ daemonLog' = Visit(requestId, "completeRequest", ERR_NOT_SENT)
           /\ thrown
           /\ UNCHANGED <<chain, last>>
         ELSE
           /\ completeRequest(managerAccount, requestId, proof, callbackOk)
           /\ daemonLog' = Visit(requestId, "completeRequest",
                                 completeRequestErr(managerAccount, requestId, proof, callbackOk))
           /\ IF completeRequestErr(managerAccount, requestId, proof, callbackOk) # OK
                THEN thrown ELSE nextEntry
  /\ UNCHANGED <<signal, daemonTimeout, lastRound, died>>

\* the deployments the daemon is run against
DaemonCapacity == 2
DaemonTimeoutArgs == 1..2

\* the daemon, next to a requester that creates requests and cancels the
\* stale ones itself
NextDaemon ==
  \/ \E timeout \in DaemonTimeoutArgs :
       createApplication(Creator, PublicKeyOf(BeaconSecretKey), DaemonCapacity,
                         DaemonCapacity, timeout) /\ UNCHANGED daemon
  \/ \E requesterAddress \in Requesters, rnd \in (round + 1)..(round + maxFutureRounds) :
       createRequest(requesterAddress, rnd, ExampleCallerApp, BeaconAddress, ExactCosts)
         /\ UNCHANGED daemon
  \/ \E sender \in Requesters, requestId \in RequestIdArgs :
       cancelRequest(sender, requestId) /\ UNCHANGED daemon
  \/ AdvanceRound /\ UNCHANGED daemon
  \/ daemonLaunch
  \/ abort
  \/ daemonStart
  \/ daemonLoop
  \/ daemonSleep
  \/ daemonPoll
  \/ daemonVisit

SpecDaemon == Init /\ [][NextDaemon]_vars

\* the process that exited with code 1 is started again: nothing of main's
\* variables is kept
daemonRestart ==
  /\ daemonPc = "fatal"
  /\ daemonPc' = "start"
  /\ signal' = [aborted |-> FALSE]
  /\ daemonTimeout' = 0
  /\ boxMap' = <<>>
  /\ lastRound' = 0
  /\ died' = [visit |-> daemonLog, lastRound |-> lastRound]
  /\ UNCHANGED <<chain, last, daemonLog>>

\* the daemon, started again whenever it has died
NextRestart ==
  \/ \E timeout \in DaemonTimeoutArgs :
       createApplication(Creator, PublicKeyOf(BeaconSecretKey), DaemonCapacity,
                         DaemonCapacity, timeout) /\ UNCHANGED daemon
  \/ \E requesterAddress \in Requesters, rnd \in (round + 1)..(round + maxFutureRounds) :
       createRequest(requesterAddress, rnd, ExampleCallerApp, BeaconAddress, ExactCosts)
         /\ UNCHANGED daemon
  \/ AdvanceRound /\ UNCHANGED daemon
  \/ daemonLaunch
  \/ daemonStart
  \/ daemonLoop
  \/ daemonSleep
  \/ daemonPoll
  \/ daemonVisit
  \/ daemonRestart

SpecRestart == Init /\ [][NextRestart]_vars

\* ------------------------------------- a deployment outliving the seeds
\* the rounds the deployment is followed for
WindowMaxRound == 6

AdvanceRoundUpTo(maxRound) ==
  /\ round < maxRound
  /\ round' = round + 1
  /\ UNCHANGED <<appStatus, config, roles, ledger, balance, caller, issued, last>>

\* a timeout within the seed window and one beyond it
WindowTimeoutArgs == {1, SeedLookback + 2}
\* proofs over the seeds of all the rounds produced so far
WindowProofArgs == {prove(sk, blkSeed(r)) : sk \in SecretKeys, r \in 1..(round - 1)}

\* one request at a time, followed until its seed has left the window
NextWindow ==
  \/ \E timeout \in WindowTimeoutArgs :
       createApplication(Creator, PublicKeyOf(BeaconSecretKey), 1, 1, timeout)
         /\ UNCHANGED daemon
  \/ \E requesterAddress \in Requesters, rnd \in RoundArgs, callerAppId \in AppIdArgs,
        costsPayment \in PaymentArgs :
       createRequest(requesterAddress, rnd, callerAppId, costsPayment.receiver,
                     costsPayment.amount) /\ UNCHANGED daemon
  \/ \E sender \in Accounts, requestId \in RequestIdArgs :
       cancelRequest(sender, requestId) /\ UNCHANGED daemon
  \/ \E sender \in Accounts, requestId \in RequestIdArgs, proof \in WindowProofArgs,
        callbackOk \in BOOLEAN :
       completeRequest(sender, requestId, proof, callbackOk) /\ UNCHANGED daemon
  \/ AdvanceRoundUpTo(WindowMaxRound) /\ UNCHANGED daemon

SpecWindow == Init /\ [][NextWindow]_vars

\* ------------------------------------------- the order of the box map
\* the rounds the deployment is followed for
OrderMaxRound == 5

\* a timeout within the seed window and one beyond it
OrderTimeoutArgs == {SeedLookback, SeedLookback + 2}

\* the orders a set of request ids can be listed in
Orders(ids) ==
  {order \in [1..Cardinality(ids) -> ids] :
     \A i, j \in 1..Cardinality(ids) : i # j => order[i] # order[j]}

\* requests.getMap(), its entries in the given order
getMapInOrder(order) ==
  [k \in 1..Len(order) |-> [requestId |-> order[k], request |-> requests[order[k]]]]

\* the reads of a cycle, the box map in whatever order the node lists it
daemonPollAnyOrder ==
  /\ daemonPc = "poll"
  /\ IF appStatus # "live"
       THEN daemonPc' = "fatal" /\ UNCHANGED <<boxMap, lastRound>>
     ELSE IF totalPendingRequests = 0
       THEN daemonPc' = "loop" /\ UNCHANGED <<boxMap, lastRound>>
     ELSE /\ \E order \in Orders(DOMAIN requests) : boxMap' = getMapInOrder(order)
          /\ lastRound' = getLastRound
          /\ daemonPc' = "visit"
  /\ UNCHANGED <<chain, last, signal, daemonTimeout, daemonLog, died>>

\* what the contract answers to the submission the for loop makes for a
\* request when the cycle's lastRound is lr ("ok" for a request it skips)
submissionErr(requestId, lr) ==
  LET request == requests[requestId]
      roundsSinceReady == lr - request.round
  IN
  IF notReadyYet(roundsSinceReady) THEN OK
  ELSE IF hasTimedOut(roundsSinceReady) THEN cancelRequestErr(managerAccount, requestId)
  ELSE completeRequestErr(managerAccount, requestId,
                          createProofForRound(vrfSecretKey, request.round), TRUE)

\* the requests the for loop completes or cancels when it visits them in the
\* given order and every submission reaches the contract: the first rejected
\* one is thrown out of the loop
RECURSIVE cycleClosed(_, _)
cycleClosed(order, lr) ==
  IF order = <<>> THEN {}
  ELSE IF submissionErr(Head(order), lr) # OK THEN {}
  ELSE (IF notReadyYet(lr - requests[Head(order)].round) THEN {} ELSE {Head(order)})
         \cup cycleClosed(Tail(order), lr)

\* the daemon next to a requester, the box map listed in any order
NextOrder ==
  \/ \E timeout \in OrderTimeoutArgs :
       createApplication(Creator, PublicKeyOf(BeaconSecretKey), DaemonCapacity,
                         DaemonCapacity, timeout) /\ UNCHANGED daemon
  \/ \E requesterAddress \in Requesters, rnd \in (round + 1)..(round + maxFutureRounds) :
       createRequest(requesterAddress, rnd, ExampleCallerApp, BeaconAddress, ExactCosts)
         /\ UNCHANGED daemon
  \/ AdvanceRoundUpTo(OrderMaxRound) /\ UNCHANGED daemon
  \/ daemonLaunch
  \/ daemonStart
  \/ daemonLoop
  \/ daemonSleep
  \/ daemonPollAnyOrder
  \/ daemonVisit

SpecOrder == Init /\ [][NextOrder]_vars

\* ------------------------------------------------ late cancellations
\* the daemon next to a deployment for one request at a time, followed for
\* rounds beyond the end of the request's timeout
StaleTimeoutArgs == {1, 3}

NextStale ==
  \/ \E timeout \in StaleTimeoutArgs :
       createApplication(Creator, PublicKeyOf(BeaconSecretKey), 1, 1, timeout)
         /\ UNCHANGED daemon
  \/ \E requesterAddress \in Requesters :
       createRequest(requesterAddress, round + 1, ExampleCallerApp, BeaconAddress, ExactCosts)
         /\ UNCHANGED daemon
  \/ \E sender \in Requesters, requestId \in RequestIdArgs :
       cancelRequest(sender, requestId) /\ UNCHANGED daemon
  \/ AdvanceRoundUpTo(WindowMaxRound) /\ UNCHANGED daemon
  \/ daemonLaunch
  \/ abort
  \/ daemonStart
  \/ daemonLoop
  \/ daemonSleep
  \/ daemonPoll
  \/ daemonVisit

SpecStale == Init /\ [][NextStale]_vars

\* ------------------------------------------------- cancelling callers
\* the deployment with a caller that keeps submitting cancelRequest for
\* the pending requests (the stale branch of the daemon, run with the
\* manager account), next to requesters, completions and the rounds
NextLive ==
  \/ \E timeout \in DaemonTimeoutArgs :
       createApplication(Creator, PublicKeyOf(BeaconSecretKey), DaemonCapacity,
                         DaemonCapacity, timeout) /\ UNCHANGED daemon
  \/ \E requesterAddress \in Requesters, rnd \in RoundArgs :
       createRequest(requesterAddress, rnd, ExampleCallerApp, BeaconAddress, ExactCosts)
         /\ UNCHANGED daemon
  \/ \E sender \in Accounts, requestId \in RequestIdArgs :
       cancelRequest(sender, requestId) /\ UNCHANGED daemon
  \/ \E requestId \in DOMAIN requests, callbackOk \in BOOLEAN :
       completeRequest(managerAccount, requestId,
                       createProofForRound(vrfSecretKey, requests[requestId].round),
                       callbackOk) /\ UNCHANGED daemon
  \/ AdvanceRound /\ UNCHANGED daemon

\* the rounds keep coming, and the cancelling caller keeps calling
SpecLive ==
  /\ Init
  /\ [][NextLive]_vars
  /\ WF_vars(AdvanceRound /\ UNCHANGED daemon)
  /\ \A requestId \in RequestIdArgs :
       WF_vars(cancelRequest(managerAccount, requestId) /\ UNCHANGED daemon)

\* ------------------------------------------------------------ properties
\* a call of op was executed in this step
Call(op) == last' # last /\ last'.op = op
Succeeded(op) == Call(op) /\ last'.err = OK
Failed(op) == Call(op) /\ last'.err # OK

\* receiver and amount of each inner payment, in order
Receipts(itxns) == [i \in 1..Len(itxns) |-> <<itxns[i].receiver, itxns[i].amount>>]

\* the proof an honest holder of the beacon's secret key makes for a request
ValidProofFor(request) == prove(BeaconSecretKey, blkSeed(request.round))

\* the block seed of the request's round can be read in the current round
SeedQueryable(request) == request.round < round /\ round - request.round <= SeedLookback

\* a completeRequest by the manager with a valid proof and a working callback
\* would succeed
Completable(requestId) ==
  /\ requestId \in DOMAIN requests
  /\ completeRequestErr(manager, requestId, ValidProofFor(requests[requestId]), TRUE) = OK

\* C1: totalPendingRequests equals the number of records in every state; a
\* successful createRequest raises it by exactly 1, a successful
\* completeRequest or cancelRequest lowers it by exactly 1, and no other
\* step, and no failed call, changes it.
C1_PendingCountTracksRecords ==
  [][/\ totalPendingRequests' = Cardinality(DOMAIN requests')
     /\ totalPendingRequests = Cardinality(DOMAIN requests)
     /\ IF Succeeded("createRequest")
          THEN totalPendingRequests' = totalPendingRequests + 1
        ELSE IF Succeeded("completeRequest") \/ Succeeded("cancelRequest")
          THEN totalPendingRequests' = totalPendingRequests - 1
        ELSE totalPendingRequests' = totalPendingRequests]_vars

\* a request has been completed while another one stays pending
C1_Witness ==
  /\ last.op = "completeRequest" /\ last.err = OK
  /\ totalPendingRequests = 1
  /\ Cardinality(DOMAIN requests) = 1

\* C2: totalPendingRequests never exceeds maxPendingRequests.
C2_PendingWithinCapacity ==
  /\ totalPendingRequests <= maxPendingRequests
  /\ Cardinality(DOMAIN requests) <= maxPendingRequests

\* the ledger is full and a further createRequest has been refused
C2_Witness ==
  /\ totalPendingRequests = maxPendingRequests
  /\ maxPendingRequests = 2
  /\ last.op = "createRequest" /\ last.err = ERR_MAX_PENDING_REQUESTS

\* C3: a successful createRequest returns an id greater than every id
\* returned before, 1 the first time, and the id names no live record.
C3_RequestIdsStrictlyIncrease ==
  [][Succeeded("createRequest") =>
       /\ \A i \in issued : last'.requestId > i
       /\ (issued = {} => last'.requestId = 1)
       /\ last'.requestId \notin DOMAIN requests
       /\ last'.requestId \in DOMAIN requests']_vars

\* a request is created after an earlier one has left the ledger
C3_Witness ==
  /\ last.op = "createRequest" /\ last.err = OK
  /\ last.requestId = 2
  /\ 1 \notin DOMAIN requests

\* C4: a record appears only by a successful createRequest and disappears
\* only by a successful completeRequest, or a successful cancelRequest of
\* a stale request; an id that has left the ledger never returns, so it is
\* closed at most once; every successful transition emits exactly its one
\* event and a failed call emits none.
C4_RequestLifecycle ==
  [][/\ \A id \in 1..(MaxRequestId + 1) :
          /\ (id \notin DOMAIN requests /\ id \in DOMAIN requests') =>
               /\ Succeeded("createRequest")
               /\ last'.requestId = id
               /\ id \notin issued
          /\ (id \in DOMAIN requests /\ id \notin DOMAIN requests') =>
               /\ last'.requestId = id
               /\ \/ Succeeded("completeRequest")
                  \/ /\ Succeeded("cancelRequest")
                     /\ round >= requests[id].round + staleRequestTimeout
          /\ (id \in issued /\ id \notin DOMAIN requests) => id \notin DOMAIN requests'
     /\ DOMAIN requests' # DOMAIN requests =>
          /\ Len(last'.events) = 1
          /\ last'.events[1].requestId = last'.requestId
          /\ last'.events[1].name =
               CASE last'.op = "createRequest" -> "RequestCreated"
                 [] last'.op = "completeRequest" -> "RequestFulfilled"
                 [] last'.op = "cancelRequest" -> "RequestCancelled"
                 [] OTHER -> "none"
     /\ (last' # last /\ last'.events # <<>>) => DOMAIN requests' # DOMAIN requests
     /\ (last' # last /\ last'.err # OK) => last'.events = <<>>]_vars

\* a stale request has been cancelled
C4_Witness ==
  /\ last.op = "cancelRequest" /\ last.err = OK
  /\ last.requestId \in issued
  /\ last.requestId \notin DOMAIN requests
  /\ last.events[1].name = "RequestCancelled"

\* C5: a successful completeRequest deletes the record, lowers
\* totalPendingRequests by 1, invokes fulfillRandomness of the requester
\* application once with the id, the requester address and the VRF output,
\* pays feePaid to the sender and boxCost to the requester address, and
\* leaves every other record as it was.
C5_CompleteRequestEffects ==
  [][Succeeded("completeRequest") =>
       LET id == last'.requestId IN
       /\ id \in DOMAIN requests
       /\ LET r == requests[id] IN
          /\ DOMAIN requests' = DOMAIN requests \ {id}
          /\ \A j \in DOMAIN requests' : requests'[j] = requests[j]
          /\ totalPendingRequests' = totalPendingRequests - 1
          /\ last'.callbacks =
               <<[appId |-> r.requesterAppId, requestId |-> id,
                  requesterAddress |-> r.requesterAddress,
                  output |-> 1000 * BeaconSecretKey + blkSeed(r.round)]>>
          /\ totalFulfilled' = totalFulfilled + 1
          /\ last'.sender = manager
          /\ Receipts(last'.itxns) =
               << <<last'.sender, r.feePaid>>, <<r.requesterAddress, r.boxCost>> >>
          /\ balance' = balance - r.feePaid - r.boxCost]_vars

\* an overpaid request has been completed while another one stays pending
C5_Witness ==
  /\ last.op = "completeRequest" /\ last.err = OK
  /\ Cardinality(DOMAIN requests) = 1
  /\ last.itxns[1].amount = getCostsFees + Slack
  /\ Len(last.callbacks) = 1

\* every failed call leaves the chain state as it was and makes no inner
\* payment, no callback and no event
FailedCallChangesNothing(op) ==
  Failed(op) =>
    /\ UNCHANGED chain
    /\ last'.itxns = <<>> /\ last'.callbacks = <<>> /\ last'.events = <<>>

\* C6: completeRequest with a proof that does not verify against the stored
\* public key and the seed of the request's round fails, with the proof
\* error when nothing failed before the verification; the failed call
\* leaves the chain state as it was, with no payment and no callback; a
\* request that could be completed before the call can be completed after it.
C6_InvalidProofRejected ==
  /\ [](appStatus = "live" => \A sender \in Accounts, id \in DOMAIN requests, proof \in ProofArgs, ok \in BOOLEAN :
          proof # ValidProofFor(requests[id]) =>
            /\ completeRequestErr(sender, id, proof, ok) # OK
            /\ (sender = manager /\ SeedQueryable(requests[id])) =>
                 completeRequestErr(sender, id, proof, ok) = ERR_PROOF_MUST_BE_VALID)
  /\ [][/\ Succeeded("completeRequest") =>
             /\ last'.requestId \in DOMAIN requests
             /\ last'.args.proof = ValidProofFor(requests[last'.requestId])
        /\ FailedCallChangesNothing("completeRequest")
        /\ Failed("completeRequest") =>
             \A id \in DOMAIN requests : Completable(id) => Completable(id)']_vars

\* a completable request has been refused for its proof
C6_Witness ==
  /\ last.op = "completeRequest" /\ last.err = ERR_PROOF_MUST_BE_VALID
  /\ \E id \in DOMAIN requests : Completable(id)

\* C7: when the callback of the requester application fails, completeRequest
\* fails: no payment is made, no record is deleted, the counters are
\* unchanged and no event is emitted, and the request can still be completed.
C7_FailedCallbackAborts ==
  /\ [](appStatus = "live" => \A sender \in Accounts, id \in RequestIdArgs, proof \in ProofArgs :
          /\ completeRequestErr(sender, id, proof, FALSE) # OK
          /\ (/\ sender = manager
              /\ id \in DOMAIN requests
              /\ SeedQueryable(requests[id])
              /\ proof = ValidProofFor(requests[id])) =>
               completeRequestErr(sender, id, proof, FALSE) = ERR_CALLBACK_FAILED)
  /\ [][/\ Succeeded("completeRequest") => last'.args.callbackOk
        /\ (Call("completeRequest") /\ last'.err = ERR_CALLBACK_FAILED) =>
             /\ UNCHANGED <<ledger, balance, caller>>
             /\ last'.itxns = <<>> /\ last'.events = <<>>
             /\ \A id \in DOMAIN requests : Completable(id) => Completable(id)']_vars

\* the callback of a completable request has failed
C7_Witness ==
  /\ last.op = "completeRequest" /\ last.err = ERR_CALLBACK_FAILED
  /\ \E id \in DOMAIN requests : Completable(id)

\* C8: completeRequest by a sender other than the current manager fails,
\* whatever the proof, and changes nothing.
C8_OnlyManagerCompletes ==
  /\ [](appStatus = "live" => \A sender \in Accounts, id \in RequestIdArgs, proof \in ProofArgs, ok \in BOOLEAN :
          sender # manager => completeRequestErr(sender, id, proof, ok) = ERR_ONLY_MANAGER)
  /\ [][/\ Succeeded("completeRequest") => last'.sender = manager
        /\ (Call("completeRequest") /\ last'.err = ERR_ONLY_MANAGER) =>
             /\ UNCHANGED chain
             /\ last'.itxns = <<>> /\ last'.callbacks = <<>>]_vars

\* the manager has been changed, and a completeRequest for a completable
\* request has been refused for its sender
C8_Witness ==
  /\ manager = "bob"
  /\ last.op = "completeRequest" /\ last.err = ERR_ONLY_MANAGER
  /\ \E id \in DOMAIN requests : Completable(id)

\* C9: cancelRequest of a live request fails for every caller while
\* round < request.round + staleRequestTimeout, and changes nothing.
C9_CancelNeedsStale ==
  /\ [](appStatus = "live" => \A sender \in Accounts, id \in DOMAIN requests :
          round < requests[id].round + staleRequestTimeout =>
            cancelRequestErr(sender, id) = ERR_REQUEST_MUST_BE_STALE)
  /\ [][/\ Succeeded("cancelRequest") =>
             /\ last'.requestId \in DOMAIN requests
             /\ round >= requests[last'.requestId].round + staleRequestTimeout
        /\ (Call("cancelRequest") /\ last'.err = ERR_REQUEST_MUST_BE_STALE) =>
             /\ UNCHANGED chain
             /\ last'.itxns = <<>>]_vars

\* a cancelRequest has been refused after the target round of the request
C9_Witness ==
  /\ last.op = "cancelRequest" /\ last.err = ERR_REQUEST_MUST_BE_STALE
  /\ \E id \in DOMAIN requests :
       /\ round > requests[id].round
       /\ round < requests[id].round + staleRequestTimeout

\* C10: a successful cancelRequest pays a caller that is not the requester
\* address 3 x minTxnFee and the requester address the rest of
\* boxCost + feePaid; it pays a caller that is the requester address the
\* whole of it; the record is deleted and totalPendingRequests drops by 1.
C10_CancelRequestPayouts ==
  [][Succeeded("cancelRequest") =>
       LET id == last'.requestId
           sender == last'.sender
       IN
       /\ id \in DOMAIN requests
       /\ LET r == requests[id]
              pool == r.boxCost + r.feePaid
          IN
          /\ round >= r.round + staleRequestTimeout
          /\ sender # r.requesterAddress =>
               Receipts(last'.itxns) =
                 << <<sender, 3 * MinTxnFee>>, <<r.requesterAddress, pool - 3 * MinTxnFee>> >>
          /\ sender = r.requesterAddress =>
               Receipts(last'.itxns) = << <<r.requesterAddress, pool>> >>
          /\ balance' = balance - pool
          /\ DOMAIN requests' = DOMAIN requests \ {id}
          /\ totalPendingRequests' = totalPendingRequests - 1]_vars

\* the requester address itself has cancelled its overpaid request
C10_Witness ==
  /\ last.op = "cancelRequest" /\ last.err = OK
  /\ last.sender = "alice"
  /\ Receipts(last.itxns) = << <<"alice", getCostsFees + getCostsBoxMbr + Slack>> >>

\* C11: completeRequest and cancelRequest for an id without a live record,
\* never created or already closed, fail; the failure changes nothing and
\* makes no payment, callback or event; a payout is made only for an id that
\* has a live record, which the payout removes, so no request is paid twice.
C11_MissingRequestRejected ==
  /\ [](appStatus = "live" =>
          \A sender \in Accounts, id \in RequestIdArgs \ DOMAIN requests :
            /\ cancelRequestErr(sender, id) = ERR_BOX_NOT_FOUND
            /\ \A proof \in ProofArgs, ok \in BOOLEAN :
                 completeRequestErr(sender, id, proof, ok) =
                   IF sender = manager THEN ERR_BOX_NOT_FOUND ELSE ERR_ONLY_MANAGER)
  /\ [][/\ (Succeeded("completeRequest") \/ Succeeded("cancelRequest")) =>
             /\ last'.requestId \in DOMAIN requests
             /\ last'.requestId \notin DOMAIN requests'
        /\ ((Call("completeRequest") \/ Call("cancelRequest"))
              /\ last'.err = ERR_BOX_NOT_FOUND) =>
             /\ UNCHANGED chain
             /\ last'.itxns = <<>> /\ last'.callbacks = <<>> /\ last'.events = <<>>
        /\ \A id \in issued \ DOMAIN requests :
             /\ id \notin DOMAIN requests'
             /\ (last' # last /\ last'.itxns # <<>>) => last'.requestId # id]_vars

\* a cancelRequest has found no record after a request was closed
C11_Witness ==
  /\ last.op = "cancelRequest" /\ last.err = ERR_BOX_NOT_FOUND
  /\ \E id \in issued : id \notin DOMAIN requests

\* C12: while totalPendingRequests = maxPendingRequests every createRequest
\* fails, whatever its requester address, round, caller and payment, with
\* the capacity error unless the contract is paused; the failed call leaves
\* nextRequestId, totalPendingRequests and the records unchanged.
C12_CreateRequestFullRejected ==
  /\ []((appStatus = "live" /\ totalPendingRequests = maxPendingRequests) =>
          \A requesterAddress \in Requesters, rnd \in RoundArgs, callerAppId \in AppIdArgs,
             costsPayment \in PaymentArgs :
            createRequestErr(requesterAddress, rnd, callerAppId, costsPayment.receiver,
                             costsPayment.amount) =
              IF paused THEN ERR_PAUSED ELSE ERR_MAX_PENDING_REQUESTS)
  /\ [][/\ Succeeded("createRequest") => totalPendingRequests # maxPendingRequests
        /\ (Call("createRequest") /\ last'.err = ERR_MAX_PENDING_REQUESTS) =>
             /\ totalPendingRequests = maxPendingRequests
             /\ UNCHANGED <<ledger, balance, issued>>
             /\ last'.events = <<>>]_vars

\* a createRequest has been refused by a ledger that holds its one request
C12_Witness ==
  /\ maxPendingRequests = 1
  /\ Cardinality(DOMAIN requests) = 1
  /\ last.op = "createRequest" /\ last.err = ERR_MAX_PENDING_REQUESTS

\* C13: createRequest fails for a round <= the current round and for a round
\* > the current round + maxFutureRounds; for every round in between, the
\* upper bound included, it does not fail on the round and succeeds when
\* its other preconditions hold; a failed call allocates no id and stores
\* no record.
C13_CreateRequestRoundWindow ==
  /\ [](appStatus = "live" =>
          \A requesterAddress \in Requesters, rnd \in RoundArgs, callerAppId \in AppIdArgs,
             costsPayment \in PaymentArgs :
            LET e == createRequestErr(requesterAddress, rnd, callerAppId,
                                      costsPayment.receiver, costsPayment.amount)
                open == ~paused /\ totalPendingRequests < maxPendingRequests
            IN
            /\ rnd <= round => (e # OK /\ (open => e = ERR_MUST_BE_FUTURE_ROUND))
            /\ rnd > round + maxFutureRounds =>
                 (e # OK /\ (open => e = ERR_ROUND_EXCEEDS_MAX_FUTURE_ROUND))
            /\ (round < rnd /\ rnd <= round + maxFutureRounds) =>
                 /\ e \notin {ERR_MUST_BE_FUTURE_ROUND, ERR_ROUND_EXCEEDS_MAX_FUTURE_ROUND}
                 /\ (/\ open
                     /\ callerAppId # 0
                     /\ costsPayment.receiver = BeaconAddress
                     /\ costsPayment.amount >= ExactCosts) => e = OK)
  /\ [][/\ Succeeded("createRequest") =>
             /\ round < last'.args.round
             /\ last'.args.round <= round + maxFutureRounds
             /\ requests'[last'.requestId].round = last'.args.round
        /\ Failed("createRequest") =>
             /\ UNCHANGED <<nextRequestId, requests, totalPendingRequests, issued>>]_vars

\* a request for the last admissible round, the current round plus
\* maxFutureRounds, has been created
C13_Witness ==
  /\ last.op = "createRequest" /\ last.err = OK
  /\ maxFutureRounds = 2
  /\ round = requests[last.requestId].createdAt
  /\ requests[last.requestId].round = round + maxFutureRounds

\* C14: createRequest fails when the caller application id is 0, with the
\* caller error when nothing failed before that check, and every live
\* record has a requesterAppId other than 0.
C14_RequesterIsApplication ==
  /\ \A id \in DOMAIN requests : requests[id].requesterAppId # 0
  /\ appStatus = "live" =>
       \A requesterAddress \in Requesters, rnd \in RoundArgs, costsPayment \in PaymentArgs :
         LET e == createRequestErr(requesterAddress, rnd, 0, costsPayment.receiver,
                                   costsPayment.amount)
         IN
         /\ e # OK
         /\ (/\ ~paused
             /\ totalPendingRequests < maxPendingRequests
             /\ round < rnd /\ rnd <= round + maxFutureRounds) =>
              e = ERR_MUST_BE_CALLED_FROM_APP

\* a call from no application has been refused while a request of an
\* application is pending
C14_Witness ==
  /\ last.op = "createRequest" /\ last.err = ERR_MUST_BE_CALLED_FROM_APP
  /\ \E id \in DOMAIN requests : requests[id].requesterAppId = ExampleCallerApp

\* C15: when the contract is not paused, has capacity, the round is in the
\* window and the caller is an application, a costsPayment to the
\* contract's address of exactly getCosts().fees + getCosts().boxMbr makes
\* createRequest succeed; a smaller amount, or another receiver, makes it
\* fail with the payment error and no state change.
C15_ExactCostsAccepted ==
  /\ [](appStatus = "live" =>
          \A requesterAddress \in Requesters, rnd \in RoundArgs :
            (/\ ~paused
             /\ totalPendingRequests < maxPendingRequests
             /\ round < rnd /\ rnd <= round + maxFutureRounds) =>
              /\ createRequestErr(requesterAddress, rnd, ExampleCallerApp, BeaconAddress,
                                  getCostsFees + getCostsBoxMbr) = OK
              /\ \A amount \in {0, getCostsBoxMbr, getCostsFees + getCostsBoxMbr - 1} :
                   createRequestErr(requesterAddress, rnd, ExampleCallerApp, BeaconAddress,
                                    amount) = ERR_COSTS_PAYMENT_MUST_BE_VALID
              /\ \A receiver \in Accounts \cup {ZeroAddress},
                    amount \in {getCostsFees + getCostsBoxMbr,
                                getCostsFees + getCostsBoxMbr + Slack} :
                   createRequestErr(requesterAddress, rnd, ExampleCallerApp, receiver,
                                    amount) = ERR_COSTS_PAYMENT_MUST_BE_VALID)
  /\ [][/\ Succeeded("createRequest") =>
             /\ last'.args.costsPayment.receiver = BeaconAddress
             /\ last'.args.costsPayment.amount >= getCostsFees + getCostsBoxMbr
        /\ (Call("createRequest") /\ last'.err = ERR_COSTS_PAYMENT_MUST_BE_VALID) =>
             /\ UNCHANGED chain
             /\ last'.events = <<>>]_vars

\* a request paid with exactly the costs has been created
C15_Witness ==
  /\ last.op = "createRequest" /\ last.err = OK
  /\ last.args.costsPayment = [receiver |-> BeaconAddress,
                               amount |-> getCostsFees + getCostsBoxMbr]
  /\ requests[last.requestId].feePaid = getCostsFees

\* C16: while fewer than maxPendingRequests requests are pending a valid
\* createRequest succeeds, so from an empty ledger maxPendingRequests of
\* them succeed in a row; at maxPendingRequests the next one fails with the
\* capacity error; once a pending request has been cancelled or completed
\* a valid createRequest succeeds again, and the id it gets was never
\* issued before.
C16_CapacityCycle ==
  /\ []((appStatus = "live" /\ ~paused) =>
          /\ nextRequestId \notin issued
          /\ createRequestErr("alice", round + 1, ExampleCallerApp, BeaconAddress,
                              getCostsFees + getCostsBoxMbr) =
               IF totalPendingRequests < maxPendingRequests THEN OK
               ELSE ERR_MAX_PENDING_REQUESTS)
  /\ [][/\ Succeeded("createRequest") =>
             /\ totalPendingRequests < maxPendingRequests
             /\ last'.requestId \notin issued
        /\ ((Succeeded("cancelRequest") \/ Succeeded("completeRequest"))
              /\ totalPendingRequests = maxPendingRequests /\ ~paused) =>
             /\ createRequestErr("alice", round + 1, ExampleCallerApp, BeaconAddress,
                                 getCostsFees + getCostsBoxMbr) = ERR_MAX_PENDING_REQUESTS
             /\ (createRequestErr("alice", round + 1, ExampleCallerApp, BeaconAddress,
                                  getCostsFees + getCostsBoxMbr) = OK)'
             /\ nextRequestId' \notin issued']_vars

\* a ledger for two requests was filled with the requests 1 and 2, request 2
\* was removed, and a third createRequest succeeded and got the id 3
C16_Witness ==
  /\ maxPendingRequests = 2
  /\ last.op = "createRequest" /\ last.err = OK /\ last.requestId = 3
  /\ DOMAIN requests = {1, 3}
  /\ totalPendingRequests = 2

\* C17: the callbacks delivered to the requester application are counted by
\* its totalFulfilled, which starts at 0; a successful completeRequest
\* delivers exactly one callback, for the completed request, and no other
\* step delivers any, so the count equals the number of completed requests;
\* a cancelRequest delivers none and the cancelled id never returns.
C17_CallbacksMatchCompletions ==
  [][/\ IF Succeeded("completeRequest")
          THEN /\ totalFulfilled' = totalFulfilled + 1
               /\ Len(last'.callbacks) = 1
               /\ last'.callbacks[1].requestId = last'.requestId
               /\ last'.callbacks[1].appId = requests[last'.requestId].requesterAppId
          ELSE /\ totalFulfilled' = totalFulfilled
               /\ last' # last => last'.callbacks = <<>>
     /\ Succeeded("cancelRequest") => last'.requestId \notin DOMAIN requests'
     /\ (appStatus = "none" => totalFulfilled = 0)
     /\ totalFulfilled' <= Cardinality(issued' \ DOMAIN requests')]_vars

\* of two requests one has been completed and then the other cancelled: one
\* callback has been delivered
C17_Witness ==
  /\ last.op = "cancelRequest" /\ last.err = OK
  /\ issued = {1, 2}
  /\ DOMAIN requests = {}
  /\ totalFulfilled = 1

\* C18: when completeRequest succeeds, its proof was made with the secret key
\* of the stored public key over the block seed of the request's own target
\* round, and of no other round; the output handed to the callback is the
\* VRF output of that proof; and the target round of every record is later
\* than the round the record was created in.
C18_OutputFromOwnRoundSeed ==
  /\ [](\A id \in DOMAIN requests : requests[id].round > requests[id].createdAt)
  /\ [][Succeeded("completeRequest") =>
          LET r == requests[last'.requestId]
              proof == last'.args.proof
          IN
          /\ PublicKeyOf(proof.sk) = publicKey
          /\ proof.message = blkSeed(r.round)
          /\ \A other \in 0..(MaxRound + 1) : other # r.round => proof.message # blkSeed(other)
          /\ r.round < round
          /\ last'.callbacks[1].output = 1000 * proof.sk + blkSeed(r.round)
          /\ r.round > r.createdAt]_vars

\* a request created in round 1 for round 3 has been completed in round 4
\* with the output over the seed of round 3
C18_Witness ==
  /\ last.op = "completeRequest" /\ last.err = OK
  /\ round = 4
  /\ last.args.proof = prove(BeaconSecretKey, blkSeed(3))
  /\ last.callbacks[1].output = 1000 * BeaconSecretKey + blkSeed(3)

\* C19: createApplication fails and stores nothing when maxPendingRequests,
\* maxFutureRounds or staleRequestTimeout is 0, and succeeds otherwise;
\* after a successful createApplication publicKey and the three limits are
\* the arguments, nextRequestId is 1, totalPendingRequests is 0, there is
\* no record and the manager is the creator.
C19_CreateApplicationValidates ==
  /\ [](\A maxPending \in ConfigArgs, maxFuture \in ConfigArgs, timeout \in ConfigArgs :
          (createApplicationErr(maxPending, maxFuture, timeout) = OK) <=>
            (maxPending # 0 /\ maxFuture # 0 /\ timeout # 0))
  /\ [][/\ Failed("createApplication") =>
             /\ UNCHANGED chain
             /\ appStatus' = "none" /\ config' = <<0, 0, 0, 0>>
        /\ Succeeded("createApplication") =>
             /\ last'.args.maxPendingRequests > 0
             /\ last'.args.maxFutureRounds > 0
             /\ last'.args.staleRequestTimeout > 0
             /\ appStatus' = "live"
             /\ publicKey' = last'.args.publicKey
             /\ maxPendingRequests' = last'.args.maxPendingRequests
             /\ maxFutureRounds' = last'.args.maxFutureRounds
             /\ staleRequestTimeout' = last'.args.staleRequestTimeout
             /\ nextRequestId' = 1
             /\ totalPendingRequests' = 0
             /\ requests' = <<>>
             /\ last'.sender = Creator /\ manager' = Creator
        /\ (appStatus' = "live" /\ appStatus = "none") => Succeeded("createApplication")]_vars

\* a createApplication with a timeout of 0 and the other limits above 0 has
\* been refused and nothing is stored
C19_Witness ==
  /\ last.op = "createApplication" /\ last.err = ERR_TIMEOUT_CANNOT_BE_ZERO
  /\ appStatus = "none"
  /\ config = <<0, 0, 0, 0>>

\* C20: deleteApplication succeeds exactly when its sender is the manager
\* and totalPendingRequests is 0, so that no record is live; a failed call
\* leaves the application, the records and the balance unchanged; a
\* successful call pays the whole remaining balance to the manager.
C20_DeleteApplicationGuarded ==
  /\ [](appStatus = "live" =>
          \A sender \in Accounts :
            (deleteApplicationErr(sender) = OK) <=>
              (sender = manager /\ totalPendingRequests = 0))
  /\ [][/\ Succeeded("deleteApplication") =>
             /\ last'.sender = manager
             /\ totalPendingRequests = 0
             /\ DOMAIN requests = {}
             /\ Receipts(last'.itxns) = << <<manager, balance>> >>
             /\ balance' = 0
             /\ appStatus' = "deleted"
        /\ Failed("deleteApplication") =>
             /\ last'.err \in {ERR_ONLY_MANAGER, ERR_NO_PENDING_REQUESTS}
             /\ UNCHANGED chain
             /\ last'.itxns = <<>>
        /\ appStatus' = "deleted" =>
             (appStatus = "deleted" \/ Succeeded("deleteApplication"))]_vars

\* a manager that replaced the creator has deleted the application after
\* its requests were closed and has been paid the balance
C20_Witness ==
  /\ last.op = "deleteApplication" /\ last.err = OK
  /\ appStatus = "deleted"
  /\ issued # {}
  /\ Receipts(last.itxns) = << <<"bob", AppFunding>> >>

\* C21: what costsPayment holds above getCosts().fees + getCosts().boxMbr
\* is added to the fee stored with the request; the stored fee does not
\* change while the request is pending; a successful completeRequest pays
\* the stored fee, base fees and surplus together, to its sender.
C21_SurplusPaidToCompleter ==
  [][/\ Succeeded("createRequest") =>
          LET amount == last'.args.costsPayment.amount
              surplus == amount - (getCostsFees + getCostsBoxMbr)
          IN
          /\ surplus >= 0
          /\ requests'[last'.requestId].feePaid = getCostsFees + surplus
     /\ \A id \in DOMAIN requests \cap DOMAIN requests' :
          requests'[id].feePaid = requests[id].feePaid
     /\ Succeeded("completeRequest") =>
          /\ last'.itxns[1] =
               Payment(last'.sender, requests[last'.requestId].feePaid, NOTE_FEES_PAYMENT)
          /\ requests[last'.requestId].feePaid >= getCostsFees
          /\ \A i \in 2..Len(last'.itxns) : last'.itxns[i].receiver # last'.sender]_vars

\* the sender of completeRequest has been paid the base fees and the
\* surplus of an overpaid request
C21_Witness ==
  /\ last.op = "completeRequest" /\ last.err = OK
  /\ last.itxns[1] = Payment(Creator, 12 * MinTxnFee + Slack, NOTE_FEES_PAYMENT)
  /\ balance = AppFunding

\* C22: a successful createRequest stores under the id it returns a record
\* with createdAt the current round, requesterAppId the id of the calling
\* application, requesterAddress and round as passed, boxCost the box
\* amount of getCosts() and feePaid the amount of costsPayment less that
\* box amount.
C22_StoredRecord ==
  [][Succeeded("createRequest") =>
       LET boxMbr == BOX_CREATE_COST + BOX_BYTE_COST * (KeySize + RequestSize) IN
       /\ last'.requestId \in DOMAIN requests' \ DOMAIN requests
       /\ requests'[last'.requestId] =
            [createdAt |-> round,
             requesterAppId |-> last'.args.callerAppId,
             requesterAddress |-> last'.args.requesterAddress,
             round |-> last'.args.round,
             feePaid |-> last'.args.costsPayment.amount - boxMbr,
             boxCost |-> boxMbr]
       /\ last'.args.costsPayment.amount = 12 * MinTxnFee + boxMbr =>
            requests'[last'.requestId].feePaid = 12 * MinTxnFee]_vars

\* a request has been stored in round 2 for round 4 with an exact payment
C22_Witness ==
  /\ last.op = "createRequest" /\ last.err = OK
  /\ requests[last.requestId] =
       [createdAt |-> 2, requesterAppId |-> ExampleCallerApp, requesterAddress |-> "alice",
        round |-> 4, feePaid |-> getCostsFees, boxCost |-> getCostsBoxMbr]

\* ------------------------------------------------------ daemon properties
\* a step in which the daemon visits the head of its boxMap
Visited == daemonPc = "visit" /\ (daemonPc' # "visit" \/ boxMap' # boxMap)

\* C23: in a poll cycle the daemon submits nothing for a record whose round
\* is lastRound or greater, submits cancelRequest for one with
\* lastRound - round >= staleRequestTimeout, and in every other case
\* (0 < lastRound - round < staleRequestTimeout) submits completeRequest
\* with a proof over the seed of the target round.
C23_DaemonClassification ==
  [][Visited =>
      LET request == Head(boxMap).request IN
      /\ daemonLog'.requestId = Head(boxMap).requestId
      /\ daemonLog'.did =
           IF request.round >= lastRound THEN "skip"
           ELSE IF lastRound - request.round >= staleRequestTimeout THEN "cancelRequest"
           ELSE "completeRequest"
      /\ daemonLog'.did = "skip" => UNCHANGED <<chain, last>>
      /\ daemonLog'.did # "skip" /\ daemonLog'.err # ERR_NOT_SENT
           => last'.op = daemonLog'.did /\ last'.err = daemonLog'.err
      /\ daemonLog'.did = "completeRequest" /\ daemonLog'.err = OK
           => last'.args.proof = prove(vrfSecretKey, blkSeed(request.round))]_vars

\* a request due in lastRound has been visited and skipped
C23_Witness ==
  /\ daemonLog.did = "skip"
  /\ daemonLog.requestId \in DOMAIN requests
  /\ requests[daemonLog.requestId].round = lastRound
  /\ daemonPc \in {"visit", "loop"}

\* C23 as stated: a record is skipped only when its round is greater than
\* lastRound, and one with 0 <= lastRound - round < staleRequestTimeout is
\* submitted to completeRequest.
C23_AsStated ==
  [][Visited =>
      LET request == Head(boxMap).request IN
      daemonLog'.did =
        IF request.round > lastRound THEN "skip"
        ELSE IF lastRound - request.round >= staleRequestTimeout THEN "cancelRequest"
        ELSE "completeRequest"]_vars

\* C24: when the submission for one request of a cycle fails, the daemon
\* goes on to the remaining requests of the cycle's snapshot.
C24_FailureKeepsCycleGoing ==
  [][Visited /\ daemonLog'.err # OK /\ Tail(boxMap) # <<>>
       => boxMap' = Tail(boxMap) /\ daemonPc' = "visit"]_vars

\* C25: a failure while handling a request never terminates the daemon; the
\* process exits with code 1 only when the beacon's global state is not
\* initialised.
C25_OnlyFatalConditionExits ==
  [][daemonPc # "fatal" /\ daemonPc' = "fatal" => ~Visited /\ appStatus # "live"]_vars

\* C26: once the signal is aborted the daemon starts no new cycle: from the
\* head of the loop and from the sleep it leaves main, and a cycle that is
\* under way runs to the head of the loop; main is never left through
\* main(...).catch.
C26_ShutdownIsGraceful ==
  [][signal.aborted =>
       /\ daemonPc \in {"loop", "sleep"} /\ daemonPc' # daemonPc => daemonPc' = "done"
       /\ daemonPc \in {"poll", "visit"} => daemonPc' \in {"poll", "visit", "loop"}]_vars

\* C27: once a pending request is stale, completeRequest for it no longer
\* succeeds, and the request leaves the ledger only through cancelRequest.
C27_StaleOnlyCancelled ==
  [][\A requestId \in DOMAIN requests :
       isStale(requests[requestId]) /\ requestId \notin DOMAIN requests'
         => Succeeded("cancelRequest") /\ last'.requestId = requestId]_vars

C29_RecordRoundWindow ==
  \A requestId \in DOMAIN requests :
    /\ requests[requestId].createdAt < requests[requestId].round
    /\ requests[requestId].round <= requests[requestId].createdAt + maxFutureRounds

\* a record at the far end of a window of more than one round, kept while
\* the rounds went on
C29_Witness ==
  /\ maxFutureRounds > 1
  /\ \E requestId \in DOMAIN requests :
       /\ requests[requestId].round = requests[requestId].createdAt + maxFutureRounds
       /\ round > requests[requestId].createdAt

\* C30: createRequest fails with the failure of the first violated
\* precondition in the order: not paused, capacity, round in the future,
\* round within maxFutureRounds, caller is an application, payment valid; a
\* failing createRequest leaves nextRequestId, totalPendingRequests and the
\* records unchanged and emits no event.
C30_CreateRequestCheckOrder ==
  /\ [](appStatus = "live" =>
         \A requesterAddress \in Requesters, rnd \in RoundArgs, callerAppId \in AppIdArgs,
            costsPayment \in PaymentArgs :
           LET violated ==
                 <<paused,
                   ~(totalPendingRequests < maxPendingRequests),
                   ~(rnd > round),
                   ~(rnd <= round + maxFutureRounds),
                   callerAppId = 0,
                   ~(costsPayment.receiver = BeaconAddress /\ costsPayment.amount >= ExactCosts)>>
               failure ==
                 <<ERR_PAUSED, ERR_MAX_PENDING_REQUESTS, ERR_MUST_BE_FUTURE_ROUND,
                   ERR_ROUND_EXCEEDS_MAX_FUTURE_ROUND, ERR_MUST_BE_CALLED_FROM_APP,
                   ERR_COSTS_PAYMENT_MUST_BE_VALID>>
               first == {i \in 1..6 : violated[i] /\ \A j \in 1..(i - 1) : ~violated[j]}
           IN createRequestErr(requesterAddress, rnd, callerAppId, costsPayment.receiver,
                               costsPayment.amount)
                = IF first = {} THEN OK ELSE failure[CHOOSE i \in first : TRUE])
  /\ [][Failed("createRequest") =>
          /\ UNCHANGED <<nextRequestId, totalPendingRequests, requests>>
          /\ last'.events = <<>>
          /\ \E requesterAddress \in Requesters, rnd \in RoundArgs, callerAppId \in AppIdArgs,
                costsPayment \in PaymentArgs :
               last'.err = createRequestErr(requesterAddress, rnd, callerAppId,
                                            costsPayment.receiver, costsPayment.amount)]_vars

\* a createRequest has failed on the pause while the ledger was full as well
C30_Witness ==
  /\ last.op = "createRequest"
  /\ last.err = ERR_PAUSED
  /\ paused
  /\ totalPendingRequests > 0
  /\ totalPendingRequests = maxPendingRequests

\* C31: after createApplication no operation of the contract changes
\* publicKey, maxPendingRequests, maxFutureRounds or staleRequestTimeout.
C31_ConfigurationFixed ==
  [][appStatus # "none" => UNCHANGED config]_vars

\* getCosts is called on a deployment that has issued a request, is paused
\* and has been handed to another manager
C31_Witness ==
  /\ appStatus = "live"
  /\ last.op = "getCosts"
  /\ nextRequestId > 1
  /\ paused
  /\ manager = "bob"
  /\ config = <<PublicKeyOf(BeaconSecretKey), 1, 1, 1>>

\* C32: the daemon keeps nothing between cycles but the timeout it read at
\* startup: what it does to a record is a function of the record's round,
\* lastRound and staleRequestTimeout alone, so a daemon that died before its
\* submission was made and is started again takes the same decision from the
\* unchanged ledger; the death changes nothing on the ledger, and a request
\* that was acted on successfully is gone and never acted on again.
C32_DaemonRestartable ==
  /\ [](daemonPc \in {"loop", "sleep", "poll", "visit"} => daemonTimeout = staleRequestTimeout)
  /\ [][Visited =>
          LET requestId == Head(boxMap).requestId
              request == Head(boxMap).request
              did == IF lastRound - request.round <= 0 THEN "skip"
                     ELSE IF lastRound - request.round >= staleRequestTimeout
                       THEN "cancelRequest"
                     ELSE "completeRequest"
          IN
          /\ daemonLog'.did = did
          /\ died.visit.requestId = requestId /\ died.lastRound = lastRound
               => daemonLog'.did = died.visit.did
          /\ daemonLog'.err # OK => UNCHANGED chain
          /\ daemonLog'.err = OK /\ did # "skip"
               => requestId \in DOMAIN requests /\ requestId \notin DOMAIN requests']_vars
  /\ [][died' # died => UNCHANGED chain]_vars
  /\ [][\A requestId \in issued \ DOMAIN requests : requestId \notin DOMAIN requests']_vars

\* the daemon died with a completeRequest that was not sent, was started
\* again, read the same lastRound and has now completed that request
C32_Witness ==
  /\ died.visit.did = "completeRequest"
  /\ died.visit.err = ERR_NOT_SENT
  /\ died.lastRound = lastRound
  /\ daemonLog = Visit(died.visit.requestId, "completeRequest", OK)
  /\ died.visit.requestId \notin DOMAIN requests

\* C33: the requests one poll cycle completes and cancels, and with them the
\* ledger it leaves, are the same for every order in which the records of
\* the snapshot are visited, also when some submissions are rejected.
C33_OrderOfVisitsIrrelevant ==
  daemonPc = "poll" /\ appStatus = "live" =>
    \A order1, order2 \in Orders(DOMAIN requests) :
      cycleClosed(order1, getLastRound) = cycleClosed(order2, getLastRound)

\* ---------------------------------------------------------------- C34
\* what the live records of ids hold: the sum of feePaid + boxCost
RECURSIVE HeldFor(_)
HeldFor(ids) ==
  IF ids = {} THEN 0
  ELSE LET id == CHOOSE i \in ids : TRUE IN
       requests[id].feePaid + requests[id].boxCost + HeldFor(ids \ {id})

\* C34: what the contract pays out when a request is closed (feePaid and
\* boxCost on completion, incentive and refund on cancellation) is exactly
\* the amount of the costsPayment received at its creation; so the live
\* records always hold exactly what the balance has above the funding of
\* the application, and nothing of a closed request stays in the contract.
C34_PayoutConservation ==
  /\ [](appStatus = "live" => balance = AppFunding + HeldFor(DOMAIN requests))
  /\ [][/\ Succeeded("createRequest") =>
             LET request == requests'[last'.requestId] IN
             /\ request.feePaid + request.boxCost = last'.args.costsPayment.amount
             /\ balance' = balance + last'.args.costsPayment.amount
        /\ Succeeded("completeRequest") \/ Succeeded("cancelRequest") =>
             LET request == requests[last'.requestId] IN
             /\ SumAmounts(last'.itxns) = request.feePaid + request.boxCost
             /\ balance' = balance - SumAmounts(last'.itxns)
             /\ last'.requestId \notin DOMAIN requests']_vars

\* overpaid requests were opened, one was cancelled by a third party and
\* one completed, and the balance is back at the funding
C34_Witness ==
  /\ appStatus = "live"
  /\ requests = <<>>
  /\ Cardinality(issued) >= 2
  /\ totalFulfilled >= 1
  /\ last.op = "cancelRequest" /\ last.err = OK
  /\ Len(last.itxns) = 2
  /\ SumAmounts(last.itxns) = ExactCosts + Slack
  /\ balance = AppFunding

\* ---------------------------------------------------------------- C35
\* C35: the daemon works with the staleRequestTimeout it read at startup,
\* and whenever it classifies a record of its snapshot as stale, the
\* staleness precondition of cancelRequest holds for that record for as
\* long as it is live, in the round of the poll and in every later one.
\* So a cancelRequest the daemon submits for a live record is never
\* rejected as not stale (it succeeds), and as the ids of a snapshot are
\* distinct and a visit submits one call, no record gets both a
\* cancelRequest and a completeRequest in one cycle.
C35_DaemonStaleImpliesContractStale ==
  /\ [](daemonPc \in {"poll", "visit"} =>
          /\ daemonTimeout = staleRequestTimeout
          /\ lastRound <= round)
  /\ [](daemonPc = "visit" =>
          \A k \in 1..Len(boxMap) :
            LET requestId == boxMap[k].requestId
                request == boxMap[k].request
            IN
            /\ \A j \in 1..Len(boxMap) : j # k => boxMap[j].requestId # requestId
            /\ requestId \in DOMAIN requests /\ appStatus = "live" =>
                 /\ requests[requestId] = request
                 /\ hasTimedOut(lastRound - request.round) =>
                      /\ isStale(request)
                      /\ cancelRequestErr(managerAccount, requestId) = OK)
  /\ [][Visited =>
          LET requestId == Head(boxMap).requestId
              request == Head(boxMap).request
          IN
          /\ daemonLog'.did = "cancelRequest" =>
               /\ lastRound - request.round >= staleRequestTimeout
               /\ daemonLog'.err # ERR_REQUEST_MUST_BE_STALE
               /\ requestId \in DOMAIN requests /\ daemonLog'.err # ERR_NOT_SENT =>
                    daemonLog'.err = OK /\ Succeeded("cancelRequest")
          /\ daemonLog'.did = "completeRequest" =>
               ~(lastRound - request.round >= staleRequestTimeout)
          /\ last' # last =>
               /\ last'.op = daemonLog'.did /\ last'.err = daemonLog'.err
               /\ last'.err = OK => last'.requestId = requestId
          /\ daemonPc' # "fatal" =>
               \A k \in 1..Len(boxMap') : boxMap'[k].requestId # requestId]_vars

\* the daemon has cancelled a record it classified as stale, rounds after
\* the poll that took the snapshot
C35_Witness ==
  /\ daemonLog.did = "cancelRequest" /\ daemonLog.err = OK
  /\ last.op = "cancelRequest" /\ last.err = OK /\ last.sender = managerAccount
  /\ last.requestId = daemonLog.requestId
  /\ round > lastRound + 1

\* ---------------------------------------------------------------- C36
\* C36: rounds only increase, so a live record that is stale stays stale
\* until it is deleted, and cancelRequest then succeeds for every caller;
\* with rounds that keep advancing and a caller that keeps cancelling,
\* every request whose timeout ends within the bounded rounds is
\* eventually removed from the ledger.
C36_StaleRequestsEventuallyRemoved ==
  /\ [][round' >= round]_vars
  /\ [][\A requestId \in DOMAIN requests \cap DOMAIN requests' :
          isStale(requests[requestId]) =>
            /\ requests'[requestId] = requests[requestId]
            /\ staleRequestTimeout' = staleRequestTimeout
            /\ round' >= requests[requestId].round + staleRequestTimeout]_vars
  /\ [](appStatus = "live" =>
          \A requestId \in DOMAIN requests :
            isStale(requests[requestId]) =>
              \A sender \in Accounts : cancelRequestErr(sender, requestId) = OK)
  /\ \A requestId \in RequestIdArgs :
       (/\ requestId \in DOMAIN requests
        /\ requests[requestId].round + staleRequestTimeout <= MaxRound)
         ~> (requestId \notin DOMAIN requests)

\* a request that nobody completed has become stale and has been cancelled
\* by the caller that keeps cancelling
C36_Witness ==
  /\ last.op = "cancelRequest" /\ last.err = OK
  /\ last.sender = managerAccount
  /\ totalFulfilled = 0
  /\ last.requestId \in issued \ DOMAIN requests
  /\ requests # <<>>

\* ---------------------------------------------------------------- C37
\* C37: while the contract is paused every createRequest fails with the
\* pause error; completeRequest and cancelRequest succeed under the same
\* conditions whether the contract is paused or not (the record exists and
\* is stale; the manager calls with a valid proof for a queryable seed and
\* the callback succeeds), and a call that succeeds while paused closes
\* the record and pays out what it holds as it does otherwise, leaving the
\* contract paused.
C37_PauseBlocksOnlyCreation ==
  /\ [](appStatus = "live" /\ paused =>
          \A requesterAddress \in Requesters, rnd \in RoundArgs, callerAppId \in AppIdArgs,
             costsPayment \in PaymentArgs :
            createRequestErr(requesterAddress, rnd, callerAppId, costsPayment.receiver,
                             costsPayment.amount) = ERR_PAUSED)
  /\ [](appStatus = "live" =>
          \A sender \in Accounts, requestId \in RequestIdArgs :
            /\ cancelRequestErr(sender, requestId) = OK <=>
                 /\ requestId \in DOMAIN requests
                 /\ round >= requests[requestId].round + staleRequestTimeout
            /\ \A proof \in ProofArgs, callbackOk \in BOOLEAN :
                 completeRequestErr(sender, requestId, proof, callbackOk) = OK <=>
                   /\ sender = manager
                   /\ requestId \in DOMAIN requests
                   /\ SeedQueryable(requests[requestId])
                   /\ proof = ValidProofFor(requests[requestId])
                   /\ callbackOk)
  /\ [][paused /\ (Succeeded("completeRequest") \/ Succeeded("cancelRequest")) =>
          LET requestId == last'.requestId IN
          /\ paused'
          /\ requestId \in DOMAIN requests
          /\ DOMAIN requests' = DOMAIN requests \ {requestId}
          /\ \A other \in DOMAIN requests' : requests'[other] = requests[other]
          /\ totalPendingRequests' = totalPendingRequests - 1
          /\ balance' = balance - requests[requestId].feePaid - requests[requestId].boxCost
          /\ SumAmounts(last'.itxns) = requests[requestId].feePaid + requests[requestId].boxCost
          /\ Succeeded("completeRequest") => Len(last'.callbacks) = 1]_vars
  /\ [][Failed("createRequest") /\ paused => last'.err = ERR_PAUSED /\ UNCHANGED chain]_vars

\* the paused contract has been drained: its last pending request was
\* completed while the pause was on
C37_Witness ==
  /\ appStatus = "live" /\ paused
  /\ last.op = "completeRequest" /\ last.err = OK
  /\ issued # {}
  /\ requests = <<>>
  /\ totalPendingRequests = 0

\* ---------------------------------------------------------------- C38
\* C38: a successful deleteManager leaves the zero address as manager, and
\* from then on the manager stays the zero address and the application
\* stays: every completeRequest, updateManager, deleteManager,
\* updateApplication and deleteApplication fails as not sent by the
\* manager and changes nothing, and a record leaves the ledger only by a
\* successful cancelRequest for it, once it is stale.
C38_RenouncedManagerIsFinal ==
  /\ [][Succeeded("deleteManager") => manager' = ZeroAddress]_vars
  /\ [][appStatus = "live" /\ manager = ZeroAddress =>
          /\ manager' = ZeroAddress
          /\ appStatus' = "live"
          /\ \A op \in {"completeRequest", "updateManager", "deleteManager",
                        "updateApplication", "deleteApplication"} :
               Call(op) => last'.err = ERR_ONLY_MANAGER /\ UNCHANGED chain
          /\ \A requestId \in DOMAIN requests \ DOMAIN requests' :
               /\ Succeeded("cancelRequest")
               /\ last'.requestId = requestId
               /\ isStale(requests[requestId])]_vars
  /\ [](appStatus = "live" /\ manager = ZeroAddress =>
          \A sender \in Accounts :
            /\ deleteApplicationErr(sender) = ERR_ONLY_MANAGER
            /\ \A newManager \in NewRoleArgs :
                 updateManagerErr(sender, newManager) = ERR_ONLY_MANAGER
            /\ \A requestId \in RequestIdArgs, proof \in ProofArgs, callbackOk \in BOOLEAN :
                 completeRequestErr(sender, requestId, proof, callbackOk) = ERR_ONLY_MANAGER)

\* the manager has renounced, and a request that was pending has left the
\* ledger by a cancellation
C38_Witness ==
  /\ appStatus = "live"
  /\ manager = ZeroAddress
  /\ last.op = "cancelRequest" /\ last.err = OK
  /\ issued # {}
  /\ requests = <<>>

\* ---------------------------------------------------------------- C39
\* C39: a request record never changes between its creation and its
\* deletion, and an id that was deleted holds no record again. A
\* successful createRequest adds the record of its new id and a successful
\* completeRequest or cancelRequest deletes the record of its own id;
\* neither touches the record of another id, a failed call touches no
\* record, and nothing else changes the ledger.
C39_RecordsImmutableAndIndependent ==
  /\ [][\A requestId \in DOMAIN requests \cap DOMAIN requests' :
          requests'[requestId] = requests[requestId]]_vars
  /\ [][\A requestId \in issued \ DOMAIN requests : requestId \notin DOMAIN requests']_vars
  /\ [][Succeeded("createRequest") =>
          /\ last'.requestId \notin DOMAIN requests
          /\ DOMAIN requests' = DOMAIN requests \cup {last'.requestId}]_vars
  /\ [][Succeeded("completeRequest") \/ Succeeded("cancelRequest") =>
          /\ last'.requestId \in DOMAIN requests
          /\ DOMAIN requests' = DOMAIN requests \ {last'.requestId}]_vars
  /\ [][Failed("createRequest") \/ Failed("completeRequest") \/ Failed("cancelRequest") =>
          requests' = requests]_vars
  /\ [][requests' # requests =>
          \/ Succeeded("createRequest")
          \/ Succeeded("completeRequest")
          \/ Succeeded("cancelRequest")]_vars

\* of two pending requests the younger one has been closed and the older
\* one is still in the ledger
C39_Witness ==
  /\ last.op \in {"completeRequest", "cancelRequest"} /\ last.err = OK
  /\ last.requestId = 2
  /\ DOMAIN requests = {1}

\* ---------------------------------------------------------------- C40
\* C40: every live record has feePaid >= 12 * MinTxnFee, so what it holds
\* covers the cancellation incentive of 3 * MinTxnFee: no payment of a
\* cancellation is the result of an underflowing subtraction, and the
\* refund of a cancellation by a third party is at least
\* boxCost + 9 * MinTxnFee. The counter of pending requests is at least 1
\* whenever there is a record to delete, so no cancelRequest or
\* completeRequest fails by underflow.
C40_NoUnderflow ==
  /\ [](appStatus = "live" =>
          /\ totalPendingRequests = Cardinality(DOMAIN requests)
          /\ \A requestId \in DOMAIN requests :
               LET request == requests[requestId] IN
               /\ request.feePaid >= 12 * MinTxnFee
               /\ request.boxCost + request.feePaid >= 3 * MinTxnFee
               /\ totalPendingRequests >= 1
               /\ \A sender \in Accounts :
                    LET itxns == cancelPayments(sender, request) IN
                    /\ \A i \in 1..Len(itxns) : itxns[i].amount >= 0
                    /\ sender # request.requesterAddress =>
                         itxns[2].amount >= request.boxCost + 9 * MinTxnFee
                    /\ cancelRequestErr(sender, requestId) # ERR_UNDERFLOW)
  /\ [][Call("cancelRequest") \/ Call("completeRequest") =>
          /\ last'.err # ERR_UNDERFLOW
          /\ last'.err = OK =>
               /\ totalPendingRequests >= 1
               /\ totalPendingRequests' = totalPendingRequests - 1
               /\ totalPendingRequests' >= 0]_vars
  /\ [][Succeeded("cancelRequest") /\ Len(last'.itxns) = 2 =>
          LET request == requests[last'.requestId] IN
          /\ last'.itxns[1].amount = 3 * MinTxnFee
          /\ last'.itxns[2].receiver = request.requesterAddress
          /\ last'.itxns[2].amount >= request.boxCost + 9 * MinTxnFee]_vars

\* a request paid with exactly the costs has been cancelled by a third
\* party: the refund is the box cost and 9 minimum fees, and the counter
\* of pending requests is back at 0
C40_Witness ==
  /\ last.op = "cancelRequest" /\ last.err = OK
  /\ Len(last.itxns) = 2
  /\ last.itxns[2].amount = getCostsBoxMbr + 9 * MinTxnFee
  /\ totalPendingRequests = 0
====
